---- MODULE Spec2Model ----
(***************************************************************************)
(* SpiritCompanion: the real-time session monitor.                         *)
(*                                                                         *)
(*   src/.backend/EmotionDetection.py     monitor loop, stop, history DB   *)
(*   src/.backend/FocusRestReminders.py   focus/rest interval scheduler    *)
(*   src/.frontend/main.py                HTTP / WebSocket handlers        *)
(*                                                                         *)
(* Threads are modelled by a program counter each; every step is one       *)
(* access to shared module-level state (the globals of the Python          *)
(* modules), so that the interleavings of the real threads are the         *)
(* interleavings of the steps.                                             *)
(***************************************************************************)
EXTENDS Integers, Sequences, FiniteSets, TLC

\* ------------------------------------------------------------------ bounds
\* sessions the environment starts in one behaviour
MaxStarts == 1
\* cap of each emotion count of a session
MaxCount == 1
\* cap of the distraction events of a session
MaxEvents == 2
\* wall clock horizon, in seconds
MaxTime == 9
\* largest advance of the wall clock between two ticks
MaxJump == 4
\* appends to the history store in one behaviour (SpecDB)
MaxAppends == 8
\* scheduler threads started in one behaviour
MaxRuns == 2
\* largest focus_total, check_interval and rest_duration of a configuration
MaxFocus == 6
MaxRepeat == 4
MaxRest == 2
\* /ws/video connections in one behaviour
MaxConsumers == 2
MaxNotify == 2
\* messages handed to the event loop in one behaviour
MaxPublish == 2
\* labels pushed into the smoothing window in one behaviour
MaxPush == 6

\* ------------------------------------------------------- program constants
WINDOW_SIZE == 5
DISTRACTION_THRESHOLD == 4
\* "KEEP ONLY LAST 5 SESSIONS"
KeepLast == 5
\* "if frame_count > 10"
MaxReadFailures == 10

\* Python's None, for a capture handle or a timestamp, and for an emotion label
None == 0 - 1
NoLabel == "None"
\* a local name that no assignment has bound yet
Unbound == "Unbound"

Emotions == {"angry", "stressed", "happy", "sad", "focused"}
Categories == Emotions \cup {"distractions"}
\* the labels DeepFace reports, and one it does not
RawEmotions == {"angry", "fear", "disgust", "happy", "sad", "neutral", "surprise", "other"}

\* the threads on start_emotion_detection, and a caller of stop_emotion_detection
Mons == {"mon", "mon2"}
Threads == Mons \cup {"ext"}

\* the threads that run _run_timer
Runs == 1..MaxRuns
\* the /ws/video connections, in the order they are accepted
Consumers == 1..MaxConsumers
\* timer_state["phase"] is None
NoPhase == "None"

VARIABLES
  \* ---- EmotionDetection.py globals
  running, session_active, cap,
  emotion_counts, emotion_window, phone_visible_start,
  \* ---- the VideoCapture objects ever opened: [open, rel] per object
  capObj,
  \* ---- the sessions table of Memory.db and its AUTOINCREMENT sequence
  sessions, sqlite_seq,
  \* ---- threads: program counter and locals
  pc, frame_count, camera_index, held, temp_cap, current_emotion, phone_detected,
  count,
  \* ---- environment
  now, starts, appends,
  \* ---- FocusRestReminders.py globals
  FocusTime, RestTime, RepeatTime, timer_state, timer_thread, timer_stop_event,
  \* ---- the threads on _run_timer: [pc, focus_duration, focus_elapsed, rest_elapsed]
  \* each, and the thread on startFocusRestTimer
  run, starter,
  \* ---- EmotionDetection.py globals of the video bridge
  video_websocket, main_event_loop,
  \* ---- the event loop's queue of scheduled _send_video_frame coroutines, and
  \* the /ws/video connections: "new", "open", "closed" (by the peer), "gone"
  pending, conn,
  \* ---- NotificationSender.py as loaded twice (by frontend main.py lines 25-30
  \* under the name notification_sender, and by the import of line 8 of
  \* FocusRestReminders.py under the name NotificationSender): per instance its
  \* globals _websocket_connections and _main_event_loop; the /ws/notifications
  \* connections; the _send_notification_async coroutines handed to an event
  \* loop; and what has been observed: the notifications emitted (serial), those
  \* each connection has received, those that found no connection registered
  notify,
  \* ---- observation (history) variables
  obs, tobs, bobs

monGlobals == <<running, session_active, cap, emotion_counts, emotion_window, phone_visible_start>>
dbVars == <<sessions, sqlite_seq>>
monLocals == <<frame_count, camera_index, held, temp_cap, current_emotion, phone_detected>>
stopLocals == <<count>>
envVars == <<now, starts, appends>>
timerGlobals == <<FocusTime, RestTime, RepeatTime, timer_state, timer_thread, timer_stop_event>>
timerVars == <<timerGlobals, run, starter, tobs, notify>>
bridgeVars == <<video_websocket, main_event_loop, pending, conn, bobs>>
vars == <<monGlobals, capObj, dbVars, pc, monLocals, stopLocals, envVars, obs, timerVars,
          bridgeVars>>

\* ------------------------------------------------------------ pure helpers
Min(a, b) == IF a < b THEN a ELSE b

ZeroCounts == [k \in Categories |-> 0]

\* map_emotion: DeepFace's label to the session's category
map_emotion(df_emotion) ==
  IF df_emotion = "angry" THEN "angry"
  ELSE IF df_emotion \in {"fear", "disgust"} THEN "stressed"
  ELSE IF df_emotion = "happy" THEN "happy"
  ELSE IF df_emotion = "sad" THEN "sad"
  ELSE IF df_emotion \in {"neutral", "surprise"} THEN "focused"
  ELSE "stressed"

\* a deque without maxlen
DequeKeepsAll(w, x) == Append(w, x)

\* deque(maxlen=WINDOW_SIZE).append
DequeAppend(w, x) ==
  IF Len(w) < WINDOW_SIZE THEN Append(w, x) ELSE Append(Tail(w), x)

Occurrences(w, x) == Cardinality({i \in 1..Len(w) : w[i] = x})

\* a most_common that returns the label pushed last
MostRecent(w) == w[Len(w)]

\* Counter(w).most_common(1)[0][0]: the highest count; among equal counts the
\* label met first in the window (Counter keeps insertion order, the sort is stable)
MostCommon(w) ==
  LET best == CHOOSE i \in 1..Len(w) :
                /\ \A j \in 1..Len(w) : Occurrences(w, w[j]) <= Occurrences(w, w[i])
                /\ \A j \in 1..(i - 1) : Occurrences(w, w[j]) < Occurrences(w, w[i])
  IN w[best]

\* cap.release() on VideoCapture object h
Released(objs, h) == [objs EXCEPT ![h] = [open |-> FALSE, rel |-> @.rel + 1]]

IsOpened(h) == capObj[h].open

\* ---------------------------------------------------------------- initial
\* what an observer records. stopReq: stop has been called since the latest start;
\* prevStop: a stop has stopped the session (found session_active true at line 414)
\* and start has not been invoked since; second[t]: the call of stop that thread t
\* is in, or was in last, was made with prevStop true, and no start has been
\* invoked since; did[t]: what that call has done (release, save); returned: a
\* call of stop from outside the monitor thread that stopped the session has
\* returned, and no start has been invoked since; raised: a tick of the session
\* has raised an exception; mark: the records appended before the latest start;
\* probes: the test captures that opened without a frame in a start that is
\* still trying camera indices or has given up; got: a camera index of the
\* latest start has given a frame; reached: the latest start has set running
\* (line 171)
ObsInit ==
  [ stopReq |-> FALSE,
    prevStop |-> FALSE,
    second |-> [t \in Threads |-> FALSE],
    did |-> [t \in Threads |-> {}],
    holdStart |-> None, due |-> None, atDue |-> FALSE, events |-> <<>>,
    lastFalse |-> None, tick |-> None, detected |-> FALSE, fired |-> FALSE,
    log |-> <<>>, listed |-> <<>>, listedQuiet |-> FALSE, listedLog |-> 0,
    returned |-> FALSE, raised |-> FALSE, mark |-> 0, lost |-> FALSE,
    pushed |-> <<>>, noFace |-> FALSE, probes |-> {}, got |-> FALSE,
    reached |-> FALSE ]

\* what is observed of the bridge. serial: the messages scheduled so far (a
\* message is known by its number); delivered: per connection, the numbers its
\* send_text has transmitted; failed: the connections a send has raised for;
\* expect: the connection attached last, while its peer has it open; skipped: a
\* tick found no consumer at line 270 while expect was set; replacedAt: per
\* connection, serial when it was replaced or detached; nullDetach: whether a
\* set_video_websocket(None) that found nothing attached left the bridge the
\* "same" or "changed" ("none": no such call yet); cases: the ways a tick met a
\* missing consumer (at the "check" of line 270, at the "use" of line 313);
\* checkedLate: the latest check of line 270 found a connection attached that a
\* send had already raised for
BobsInit ==
  [serial |-> 0, delivered |-> [w \in Consumers |-> <<>>], failed |-> {},
   expect |-> None, skipped |-> FALSE, replacedAt |-> [w \in Consumers |-> None],
   nullDetach |-> "none", cases |-> {}, checkedLate |-> FALSE]

\* NotificationSender.py lines 27-30 in both instances, after startup_event
\* (frontend main.py lines 38-56) has set the event loop of the instance it
\* holds; no /ws/notifications connection yet
InitNotify ==
  notify =
    [websocket_connections |-> [I \in {"notification_sender", "NotificationSender"} |-> {}],
     main_event_loop |-> [I \in {"notification_sender", "NotificationSender"} |->
                            I = "notification_sender"],
     conn |-> [c \in Consumers |-> "new"],
     task |-> <<>>,
     serial |-> 0,
     received |-> [c \in Consumers |-> <<>>],
     dropped |-> {}]

\* NotificationSender.py lines 188-232, send_notification in instance I. With
\* the instance's loop set and running the coroutine is handed to that loop
\* (lines 192-200). Otherwise get_event_loop finds no loop in the calling thread
\* and asyncio.run runs the coroutine there and then (line 222): with no
\* connection registered in the instance it returns False (lines 114-116), else
\* it sends to each and unregisters those whose send fails
send_notification(n, I) ==
  LET id == n.serial + 1
      reg == n.websocket_connections[I]
      ok == {c \in reg : n.conn[c] = "open"}
  IN IF n.main_event_loop[I]
       THEN [n EXCEPT !.serial = id,
                      !.task = Append(@, [id |-> id, mod |-> I, pc |-> "scheduled",
                                          start |-> {}, visited |-> {},
                                          disconnected |-> {}])]
       ELSE IF reg = {}
              THEN [n EXCEPT !.serial = id, !.dropped = @ \cup {id}]
              ELSE [n EXCEPT !.serial = id,
                             !.received = [c \in Consumers |->
                                             IF c \in ok THEN Append(@[c], id) ELSE @[c]],
                             !.websocket_connections[I] = ok]

\* EmotionDetection.py lines 35-38, and no connection yet
InitBridge ==
  /\ video_websocket = None
  /\ main_event_loop = FALSE
  /\ pending = <<>>
  /\ conn = [w \in Consumers |-> "new"]
  /\ bobs = BobsInit

InitMonitor ==
  /\ InitBridge
  /\ InitNotify
  /\ running = FALSE
  /\ session_active = FALSE
  /\ cap = None
  /\ emotion_counts = ZeroCounts
  /\ emotion_window = <<>>
  /\ phone_visible_start = None
  /\ capObj = <<>>
  /\ pc = [t \in Threads |-> "idle"]
  /\ frame_count = [m \in Mons |-> 0]
  /\ camera_index = [m \in Mons |-> 0]
  /\ held = [m \in Mons |-> None]
  /\ temp_cap = [m \in Mons |-> None]
  /\ current_emotion = [m \in Mons |-> Unbound]
  /\ phone_detected = [m \in Mons |-> FALSE]
  /\ count = [t \in Threads |-> 0]
  /\ now = 0
  /\ starts = 0
  /\ obs = ObsInit

InitDb ==
  /\ sessions = <<>>
  /\ sqlite_seq = 0
  /\ appends = 0

\* reset_timer_state, lines 85-104, and the module's initial timer_state, 20-39
FreshTimerState ==
  [ is_running |-> FALSE, phase |-> NoPhase, cycle |-> 0, total_cycles |-> 0,
    start_time |-> None, phase_start_time |-> None,
    elapsed_time |-> 0, phase_duration |-> 0, time_remaining |-> 0,
    focus_time_remaining |-> 0,
    notifications_sent |->
      [ timer_started |-> FALSE, break_starting_10s |-> FALSE,
        break_started |-> FALSE, break_ending_5s |-> FALSE,
        break_ended |-> FALSE, timer_complete |-> FALSE ] ]

\* a thread that has not been created
Unborn == [pc |-> "unborn", focus_duration |-> 0, focus_elapsed |-> 0, rest_elapsed |-> 0]

\* per scheduler thread: the chunks it has run and the notifications it has sent,
\* in all (sent) and since its latest focus chunk or rest phase began (phase);
\* asleep: the latest restart's signal (and join) came while the previous thread
\* was inside a one-second sleep; signalled: the thread the latest stop signal was
\* set for (line 252), and after: the one-second ticks it has made since; http: the
\* status of the latest answer of POST /api/timer/start (0: none yet), launched:
\* that handler has started threads
TobsInit ==
  [chunks |-> [r \in Runs |-> <<>>], sent |-> [r \in Runs |-> <<>>],
   phase |-> [r \in Runs |-> <<>>], asleep |-> FALSE,
   signalled |-> None, after |-> 0, http |-> 0, launched |-> FALSE, down |-> FALSE]

\* FocusRestReminders.py as imported, lines 15-43
InitTimerModule ==
  /\ FocusTime = 0 /\ RestTime = 0 /\ RepeatTime = 0
  /\ timer_state = FreshTimerState
  /\ timer_thread = None
  /\ timer_stop_event = FALSE
  /\ run = [r \in Runs |-> Unborn]
  /\ starter = "idle"
  /\ tobs = TobsInit

Init == InitMonitor /\ InitDb /\ InitTimerModule

\* the observer of the ticks at the start of a session
ObserveReset(o) ==
  [o EXCEPT !.holdStart = None, !.due = None, !.atDue = FALSE, !.events = <<>>,
            !.lastFalse = None, !.tick = None, !.detected = FALSE, !.fired = FALSE]

\* thread t moves from location a to location b
Goto(t, a, b) == pc[t] = a /\ pc' = [pc EXCEPT ![t] = b]

\* =========================================================================
\* EmotionDetection.py: start_emotion_detection, run by a monitor thread m
\* =========================================================================

\* POST /api/timer/start: a thread is started on start_emotion_detection
Start(m, limit) ==
  /\ starts < limit
  /\ Goto(m, "idle", "m_reset")
  /\ starts' = starts + 1
  /\ current_emotion' = [current_emotion EXCEPT ![m] = Unbound]
  /\ obs' = [obs EXCEPT !.prevStop = FALSE, !.stopReq = FALSE,
                        !.second = [t \in Threads |-> FALSE], !.returned = FALSE,
                        !.raised = FALSE, !.mark = Len(obs.log), !.lost = FALSE,
                        !.probes = {}, !.got = FALSE, !.reached = FALSE]
  /\ UNCHANGED <<timerVars, bridgeVars, monGlobals, capObj, dbVars, frame_count, camera_index, held, temp_cap,
                 phone_detected, stopLocals, now, appends>>

\* lines 136-140: reset per-session state (init_db creates the table if missing)
MonReset(m) ==
  /\ Goto(m, "m_reset", "m_capnone")
  /\ emotion_counts' = ZeroCounts
  /\ emotion_window' = <<>>
  /\ phone_visible_start' = None
  /\ obs' = ObserveReset(obs)
  /\ UNCHANGED <<timerVars, bridgeVars, running, session_active, cap, capObj, dbVars, monLocals, stopLocals,
                 envVars>>

\* line 143: cap = None
MonCapNone(m) ==
  /\ Goto(m, "m_capnone", "m_open")
  /\ cap' = None
  /\ camera_index' = [camera_index EXCEPT ![m] = 0]
  /\ UNCHANGED <<timerVars, bridgeVars, running, session_active, emotion_counts, emotion_window,
                 phone_visible_start, capObj, dbVars, frame_count, held, temp_cap,
                 current_emotion, phone_detected, stopLocals, envVars, obs>>

\* a probe that keeps the capture it could not read
ProbeKept(outcome) == [open |-> outcome # "noopen", rel |-> 0]

\* lines 146-155: test_cap after one camera index has been tried: it did not
\* open, or opened without a frame and was released (line 154), or opened and
\* gave a frame
Probe(outcome) ==
  LET test_cap == [open |-> outcome # "noopen", rel |-> 0]
  IN IF outcome = "noframe" THEN Released(<<test_cap>>, 1)[1] ELSE test_cap

\* lines 144-158: one camera index: it does not open, opens without a frame
\* (and is released at once), or opens and yields a frame (and becomes cap)
MonOpen(m) ==
  /\ pc[m] = "m_open"
  /\ \E outcome \in {"noopen", "noframe", "ok"} :
       /\ capObj' = IF outcome = "ok" THEN Append(capObj, Probe(outcome))
                                      ELSE capObj
       /\ obs' = [obs EXCEPT !.probes = IF outcome = "noframe" THEN @ \cup {Probe(outcome)}
                                                               ELSE @,
                             !.got = @ \/ outcome = "ok"]
       /\ cap' = IF outcome = "ok" THEN Len(capObj) + 1 ELSE cap
       /\ LET last == outcome = "ok" \/ camera_index[m] = 2
          IN /\ camera_index' = [camera_index EXCEPT ![m] = IF last THEN 0 ELSE camera_index[m] + 1]
             /\ pc' = [pc EXCEPT ![m] = IF last THEN "m_check" ELSE "m_open"]
  /\ UNCHANGED <<timerVars, bridgeVars, running, session_active, emotion_counts, emotion_window,
                 phone_visible_start, dbVars, frame_count, held, temp_cap, current_emotion,
                 phone_detected, stopLocals, envVars>>

\* lines 160-164: no camera: running = False, session_active = False, return
MonCheck(m) ==
  /\ pc[m] = "m_check"
  /\ IF cap = None \/ ~IsOpened(cap)
       THEN /\ running' = FALSE
            /\ session_active' = FALSE
            /\ pc' = [pc EXCEPT ![m] = "idle"]
       ELSE /\ pc' = [pc EXCEPT ![m] = "m_props"]
            /\ UNCHANGED <<running, session_active>>
  /\ obs' = [obs EXCEPT !.probes = IF cap = None \/ ~IsOpened(cap) THEN @ ELSE {}]
  /\ UNCHANGED <<timerVars, bridgeVars, cap, emotion_counts, emotion_window, phone_visible_start, capObj,
                 dbVars, monLocals, stopLocals, envVars>>

\* lines 167-169: cap.set(...); with cap None the AttributeError ends the thread
MonProps(m) ==
  /\ pc[m] = "m_props"
  /\ pc' = [pc EXCEPT ![m] = IF cap = None THEN "idle" ELSE "m_running"]
  /\ UNCHANGED <<timerVars, bridgeVars, monGlobals, capObj, dbVars, monLocals, stopLocals, envVars, obs>>

\* line 171: running = True
MonSetRunning(m) ==
  /\ Goto(m, "m_running", "m_active")
  /\ running' = TRUE
  /\ obs' = [obs EXCEPT !.reached = TRUE]
  /\ UNCHANGED <<timerVars, bridgeVars, session_active, cap, emotion_counts, emotion_window,
                 phone_visible_start, capObj, dbVars, monLocals, stopLocals, envVars>>

\* lines 172-175: session_active = True; frame_count = 0
MonSetActive(m) ==
  /\ Goto(m, "m_active", "m_loop")
  /\ session_active' = TRUE
  /\ frame_count' = [frame_count EXCEPT ![m] = 0]
  /\ UNCHANGED <<timerVars, bridgeVars, running, cap, emotion_counts, emotion_window, phone_visible_start,
                 capObj, dbVars, camera_index, held, temp_cap, current_emotion,
                 phone_detected, stopLocals, envVars, obs>>

\* the locations of the tick loop, lines 177-336
LoopPcs == {"m_loop", "m_capchk", "m_read", "m_reading", "m_emotion", "m_distraction", "m_publish", "m_send"}

\* the loop's locals are dead once the loop is left
LoopLocals(m, stay) ==
  IF stay THEN UNCHANGED <<frame_count, current_emotion, phone_detected>>
  ELSE /\ frame_count' = [frame_count EXCEPT ![m] = 0]
       /\ current_emotion' = [current_emotion EXCEPT ![m] = Unbound]
       /\ phone_detected' = [phone_detected EXCEPT ![m] = FALSE]

\* line 177: while running
MonLoopTest(m) ==
  /\ pc[m] = "m_loop"
  /\ pc' = [pc EXCEPT ![m] = IF running THEN "m_capchk" ELSE "f_cap"]
  /\ LoopLocals(m, running)
  /\ UNCHANGED <<timerVars, bridgeVars, monGlobals, capObj, dbVars, camera_index, held, temp_cap, stopLocals,
                 envVars, obs>>

\* lines 179-181: camera gone: break
MonCapChk(m) ==
  /\ pc[m] = "m_capchk"
  /\ pc' = [pc EXCEPT ![m] =
              IF cap = None \/ ~IsOpened(cap) THEN "f_cap" ELSE "m_read"]
  /\ LoopLocals(m, ~(cap = None \/ ~IsOpened(cap)))
  /\ UNCHANGED <<timerVars, bridgeVars, monGlobals, capObj, dbVars, camera_index, held, temp_cap, stopLocals,
                 envVars, obs>>

\* line 187: the frame_count after a failed read is beyond the budget: break
ReadGivesUp(fc) == fc > MaxReadFailures

\* line 183: cap.read() is called: the thread takes the object the global cap
\* refers to and enters its read, which waits for the next frame. With cap None
\* the AttributeError is caught at 338 and the loop ends.
MonRead(m) ==
  /\ pc[m] = "m_read"
  /\ IF cap = None
       THEN /\ pc' = [pc EXCEPT ![m] = "f_cap"]
            /\ LoopLocals(m, FALSE)
            /\ UNCHANGED held
       ELSE /\ pc' = [pc EXCEPT ![m] = "m_reading"]
            /\ held' = [held EXCEPT ![m] = cap]
            /\ UNCHANGED <<frame_count, current_emotion, phone_detected>>
  /\ UNCHANGED <<timerVars, bridgeVars, monGlobals, capObj, dbVars, camera_index, temp_cap,
                 stopLocals, envVars, obs>>

\* lines 183-193: the read returns; a released device yields no frame
MonReadReturns(m, rets) ==
  /\ pc[m] = "m_reading"
  /\ \E ret \in rets :
       /\ ret => IsOpened(held[m])
       /\ IF ~ret /\ ReadGivesUp(frame_count[m] + 1)
            THEN /\ pc' = [pc EXCEPT ![m] = "f_cap"]
                 /\ LoopLocals(m, FALSE)
                 /\ obs' = [obs EXCEPT !.lost = TRUE]
            ELSE /\ pc' = [pc EXCEPT ![m] = IF ret THEN "m_emotion" ELSE "m_loop"]
                 /\ frame_count' = [frame_count EXCEPT ![m] = IF ret THEN 0 ELSE frame_count[m] + 1]
                 /\ UNCHANGED <<current_emotion, phone_detected, obs>>
  /\ held' = [held EXCEPT ![m] = None]
  /\ UNCHANGED <<timerVars, bridgeVars, monGlobals, capObj, dbVars, camera_index, temp_cap,
                 stopLocals, envVars>>

\* smooth_emotion (lines 56-58) and the bump of the stable label (line 207)
Bump(counts, k) == [counts EXCEPT ![k] = @ + 1]

\* an except clause that leaves the label of the tick before
NoFaceKeeps(previous) == previous

\* lines 217-218: except Exception: current_emotion = None
NoFace(previous) == NoLabel

\* lines 196-219: DeepFace.analyze raises (no face: NoLabel), or reports a dominant
\* emotion; Unbound stands for a result without one (nothing is assigned)
MonEmotion(m, raws) ==
  /\ Goto(m, "m_emotion", "m_distraction")
  /\ \E dominant_emotion \in {NoLabel, Unbound} \cup raws :
       IF dominant_emotion = NoLabel
         THEN /\ current_emotion' = [current_emotion EXCEPT ![m] = NoFace(current_emotion[m])]
              /\ obs' = [obs EXCEPT !.noFace = TRUE]
              /\ UNCHANGED <<emotion_window, emotion_counts>>
       ELSE IF dominant_emotion = Unbound
         THEN UNCHANGED <<current_emotion, emotion_window, emotion_counts, obs>>
       ELSE LET mapped == map_emotion(dominant_emotion)
                window == DequeAppend(emotion_window, mapped)
                stable_emotion == MostCommon(window)
            IN /\ emotion_counts[stable_emotion] < MaxCount
               /\ emotion_window' = window
               /\ emotion_counts' = Bump(emotion_counts, stable_emotion)
               /\ current_emotion' = [current_emotion EXCEPT ![m] = stable_emotion]
               /\ obs' = obs
  /\ UNCHANGED <<timerVars, bridgeVars, running, session_active, cap, phone_visible_start, capObj, dbVars,
                 frame_count, camera_index, held, temp_cap, phone_detected, stopLocals,
                 envVars>>

\* ">" written for ">=": the event comes one second late
ThresholdPassed(elapsed) == elapsed > DISTRACTION_THRESHOLD

\* line 255: elapsed >= DISTRACTION_THRESHOLD, for an armed detector
ThresholdReached(elapsed) == elapsed >= DISTRACTION_THRESHOLD

\* lines 250-260: whether this tick counts a distraction event
DistractionFires(detected, pvs, t) ==
  detected /\ pvs # None /\ ThresholdReached(t - pvs)

\* the else branch of line 259 left out: a tick without the phone keeps the start
NextVisibleStartKept(detected, pvs, t) ==
  IF detected
    THEN IF pvs = None THEN t
         ELSE IF ThresholdReached(t - pvs) THEN None ELSE pvs
    ELSE pvs

\* line 258 left out: the start survives the event
NextVisibleStartNoReset(detected, pvs, t) ==
  IF detected
    THEN IF pvs = None THEN t ELSE pvs
    ELSE None

\* lines 250-260: phone_visible_start after the tick
NextVisibleStart(detected, pvs, t) ==
  IF detected
    THEN IF pvs = None THEN t
         ELSE IF ThresholdReached(t - pvs) THEN None ELSE pvs
    ELSE None

\* what an observer of the ticks records: the unbroken hold (detecting ticks in a
\* row) that the tick at time t belongs to, the first tick of the hold at or after
\* holdStart + DISTRACTION_THRESHOLD, and the time of every distraction event
\* counted within the hold (bumps: by how much the counter went up in this tick)
ObserveTick(o, detected, bumps, t) ==
  LET fresh  == ~detected \/ o.holdStart = None
      isDue  == detected /\ o.holdStart # None /\ o.due = None
                /\ t >= o.holdStart + DISTRACTION_THRESHOLD
      events == IF fresh THEN <<>> ELSE o.events
  IN [o EXCEPT !.holdStart = IF ~detected THEN None
                             ELSE IF o.holdStart = None THEN t ELSE o.holdStart,
               !.due = IF fresh THEN None ELSE IF isDue THEN t ELSE o.due,
               !.atDue = isDue,
               !.events = events \o [i \in 1..bumps |-> t],
               !.lastFalse = IF detected THEN o.lastFalse ELSE t,
               !.tick = t,
               !.detected = detected,
               !.fired = bumps > 0]

\* lines 222-260: YOLO reports the phone or not; the distraction logic reads the
\* wall clock, which has advanced by d since the last reading
MonDistraction(m, jumps, track) ==
  /\ Goto(m, "m_distraction", "m_publish")
  /\ \E detected \in BOOLEAN, d \in jumps :
       LET t == now + d
           fired == DistractionFires(detected, phone_visible_start, t)
       IN /\ t <= MaxTime
          /\ fired => emotion_counts["distractions"] < MaxEvents
          /\ now' = t
          /\ phone_detected' = [phone_detected EXCEPT ![m] = detected]
          /\ phone_visible_start' = NextVisibleStart(detected, phone_visible_start, t)
          /\ emotion_counts' = IF fired THEN Bump(emotion_counts, "distractions")
                                        ELSE emotion_counts
          /\ obs' = IF track
                      THEN ObserveTick(obs, detected, emotion_counts'["distractions"]
                                                       - emotion_counts["distractions"], t)
                      ELSE obs
  /\ UNCHANGED <<timerVars, bridgeVars, running, session_active, cap, emotion_window, capObj, dbVars,
                 frame_count, camera_index, held, temp_cap, current_emotion, stopLocals,
                 starts, appends>>

\* line 223: yolo_model(frame) is outside every try of the tick: what it raises
\* is caught at 338 and the loop ends
MonRaises(m) ==
  /\ Goto(m, "m_distraction", "f_cap")
  /\ LoopLocals(m, FALSE)
  /\ obs' = [obs EXCEPT !.raised = TRUE, !.noFace = FALSE]
  /\ UNCHANGED <<timerVars, bridgeVars, monGlobals, capObj, dbVars, camera_index, held, temp_cap,
                 stopLocals, envVars>>

\* every tick hands a message over, whether a consumer is attached or not
AttachedAlways(w) == TRUE

\* line 270: if video_websocket is not None
Attached(w) == w # None

\* line 312-315: run_coroutine_threadsafe(_send_video_frame(video_websocket, ...)):
\* the coroutine is queued on the event loop and the call returns; late: the
\* tick found this connection attached after a send to it had raised
Scheduled(q, w, serial, late, emotion) ==
  Append(q, [ws |-> w, id |-> serial, late |-> late, emotion |-> emotion])

\* lines 269-326: the publish step of a tick. At line 270 the consumer is looked
\* for; at lines 290-315 the message is built (an unbound current_emotion raises
\* at line 295, caught at 323), the event loop is looked up (none: continue at
\* 306) and the send is scheduled with the consumer as read again at line 313.
MonPublish(m) ==
  /\ pc[m] \in {"m_publish", "m_send"}
  /\ pc' = [pc EXCEPT ![m] =
              IF pc[m] = "m_publish" /\ Attached(video_websocket) THEN "m_send" ELSE "m_loop"]
  /\ IF pc[m] = "m_publish"
       THEN /\ bobs' = [bobs EXCEPT
                         !.skipped = @ \/ (bobs.expect # None /\ video_websocket = None),
                         !.cases = IF video_websocket = None THEN @ \cup {"check"} ELSE @,
                         !.checkedLate = video_websocket \in bobs.failed]
            /\ UNCHANGED pending
       ELSE IF current_emotion[m] = Unbound \/ ~main_event_loop
         THEN UNCHANGED <<pending, bobs>>
         ELSE /\ bobs.serial < MaxPublish
              /\ pending' = Scheduled(pending, video_websocket, bobs.serial + 1,
                                      bobs.checkedLate /\ video_websocket \in bobs.failed,
                                      current_emotion[m])
              /\ bobs' = [bobs EXCEPT
                           !.serial = @ + 1,
                           !.cases = IF video_websocket = None THEN @ \cup {"use"} ELSE @]
  /\ obs' = [obs EXCEPT !.noFace = @ /\ pc'[m] # "m_loop"]
  /\ UNCHANGED <<timerVars, monGlobals, capObj, dbVars, monLocals, stopLocals, envVars,
                 video_websocket, main_event_loop, conn>>

\* lines 342-357, the finally block: release the camera
FinCap(m) ==
  /\ pc[m] = "f_cap"
  /\ pc' = [pc EXCEPT ![m] = IF cap # None THEN "f_isopen" ELSE "f_active"]
  /\ UNCHANGED <<timerVars, bridgeVars, monGlobals, capObj, dbVars, monLocals, stopLocals, envVars, obs>>

\* line 346: cap.isOpened(); an AttributeError (cap None) is caught at 352
FinIsOpened(m) ==
  /\ pc[m] = "f_isopen"
  /\ pc' = [pc EXCEPT ![m] =
              IF cap = None THEN "f_active"
              ELSE IF IsOpened(cap) THEN "f_release" ELSE "f_clear"]
  /\ UNCHANGED <<timerVars, bridgeVars, monGlobals, capObj, dbVars, monLocals, stopLocals, envVars, obs>>

\* line 348: cap.release()
FinRelease(m) ==
  /\ pc[m] = "f_release"
  /\ IF cap = None
       THEN /\ pc' = [pc EXCEPT ![m] = "f_active"]
            /\ UNCHANGED <<capObj, obs>>
       ELSE /\ pc' = [pc EXCEPT ![m] = "f_clear"]
            /\ capObj' = Released(capObj, cap)
            /\ obs' = [obs EXCEPT !.did[m] = @ \cup {"release"}]
  /\ UNCHANGED <<timerVars, bridgeVars, monGlobals, dbVars, monLocals, stopLocals, envVars>>

\* line 350: cap = None
FinClear(m) ==
  /\ Goto(m, "f_clear", "f_active")
  /\ cap' = None
  /\ UNCHANGED <<timerVars, bridgeVars, running, session_active, emotion_counts, emotion_window,
                 phone_visible_start, capObj, dbVars, monLocals, stopLocals, envVars, obs>>

\* line 360: if session_active
FinallyStops(active) == active

FinActive(m) ==
  /\ pc[m] = "f_active"
  /\ pc' = [pc EXCEPT ![m] = IF FinallyStops(session_active) THEN "f_temp" ELSE "idle"]
  /\ UNCHANGED <<timerVars, bridgeVars, monGlobals, capObj, dbVars, monLocals, stopLocals, envVars, obs>>

\* line 362: temp_cap = cap
FinTemp(m) ==
  /\ Goto(m, "f_temp", "f_capnone")
  /\ temp_cap' = [temp_cap EXCEPT ![m] = cap]
  /\ UNCHANGED <<timerVars, bridgeVars, monGlobals, capObj, dbVars, frame_count, camera_index, held,
                 current_emotion, phone_detected, stopLocals, envVars, obs>>

\* lines 363-364: cap = None; stop_emotion_detection()
FinCallStop(m) ==
  /\ Goto(m, "f_capnone", "st_test")
  /\ cap' = None
  /\ obs' = [obs EXCEPT !.second[m] = obs.prevStop, !.did[m] = {}]
  /\ UNCHANGED <<timerVars, bridgeVars, running, session_active, emotion_counts, emotion_window,
                 phone_visible_start, capObj, dbVars, monLocals, stopLocals, envVars>>

\* lines 366-367: restore cap, and the thread ends
FinRestore(m) ==
  /\ Goto(m, "f_restore", "idle")
  /\ cap' = IF temp_cap[m] # None THEN temp_cap[m] ELSE cap
  /\ UNCHANGED <<timerVars, bridgeVars, running, session_active, emotion_counts, emotion_window,
                 phone_visible_start, capObj, dbVars, monLocals, stopLocals, envVars, obs>>

\* =========================================================================
\* EmotionDetection.py: stop_emotion_detection, run by thread t: the caller
\* of stop ("ext": the server's shutdown handler, or any caller of stop())
\* or the monitor thread itself, from its finally block
\* =========================================================================

\* where stop_emotion_detection returns to
AfterStop(t) == IF t \in Mons THEN "f_restore" ELSE "idle"

\* a call of stop_emotion_detection() from outside the monitor thread
ExtCallStop ==
  /\ Goto("ext", "idle", "st_test")
  /\ obs' = [obs EXCEPT !.second["ext"] = obs.prevStop,
                        !.did["ext"] = {},
                        !.stopReq = @ \/ \E m \in Mons : pc[m] # "idle"]
  /\ UNCHANGED <<timerVars, bridgeVars, monGlobals, capObj, dbVars, monLocals, stopLocals, envVars>>

\* the guard of line 401 left out: every call stops "the session"
StopsSessionUnguarded(active) == TRUE

\* line 401: whether the call goes on to stop a session
StopsSession(active) == active

\* line 401: if not session_active
StopTest(t) ==
  /\ pc[t] = "st_test"
  /\ pc' = [pc EXCEPT ![t] = IF StopsSession(session_active) THEN "st_active" ELSE "st0_cap"]
  /\ UNCHANGED <<timerVars, bridgeVars, monGlobals, capObj, dbVars, monLocals, stopLocals, envVars, obs>>

\* line 403: already stopped, but a camera reference exists
Stop0Cap(t) ==
  /\ pc[t] = "st0_cap"
  /\ pc' = [pc EXCEPT ![t] = IF cap # None THEN "st0_isopen" ELSE AfterStop(t)]
  /\ UNCHANGED <<timerVars, bridgeVars, monGlobals, capObj, dbVars, monLocals, stopLocals, envVars, obs>>

\* line 405: cap.isOpened(); an AttributeError is caught at 409
Stop0IsOpened(t) ==
  /\ pc[t] = "st0_isopen"
  /\ pc' = [pc EXCEPT ![t] =
              IF cap = None THEN AfterStop(t)
              ELSE IF IsOpened(cap) THEN "st0_release" ELSE "st0_clear"]
  /\ UNCHANGED <<timerVars, bridgeVars, monGlobals, capObj, dbVars, monLocals, stopLocals, envVars, obs>>

\* line 407: cap.release()
Stop0Release(t) ==
  /\ pc[t] = "st0_release"
  /\ IF cap = None
       THEN /\ pc' = [pc EXCEPT ![t] = AfterStop(t)]
            /\ UNCHANGED <<capObj, obs>>
       ELSE /\ pc' = [pc EXCEPT ![t] = "st0_clear"]
            /\ capObj' = Released(capObj, cap)
            /\ obs' = [obs EXCEPT !.did[t] = @ \cup {"release"}]
  /\ UNCHANGED <<timerVars, bridgeVars, monGlobals, dbVars, monLocals, stopLocals, envVars>>

\* line 408: cap = None
Stop0Clear(t) ==
  /\ pc[t] = "st0_clear"
  /\ pc' = [pc EXCEPT ![t] = AfterStop(t)]
  /\ cap' = None
  /\ UNCHANGED <<timerVars, bridgeVars, running, session_active, emotion_counts, emotion_window,
                 phone_visible_start, capObj, dbVars, monLocals, stopLocals, envVars, obs>>

\* line 414: session_active = False; the session, if one was active, is stopped
StopActive(t) ==
  /\ Goto(t, "st_active", "st_running")
  /\ session_active' = FALSE
  /\ obs' = [obs EXCEPT !.prevStop = @ \/ session_active]
  /\ UNCHANGED <<timerVars, bridgeVars, running, cap, emotion_counts, emotion_window, phone_visible_start,
                 capObj, dbVars, monLocals, stopLocals, envVars>>

\* line 415: running = False
StopRunning(t) ==
  /\ Goto(t, "st_running", "st_cap")
  /\ running' = FALSE
  /\ UNCHANGED <<timerVars, bridgeVars, session_active, cap, emotion_counts, emotion_window,
                 phone_visible_start, capObj, dbVars, monLocals, stopLocals, envVars, obs>>

\* line 422: if cap is not None
StopCap(t) ==
  /\ pc[t] = "st_cap"
  /\ pc' = [pc EXCEPT ![t] = IF cap # None THEN "st_isopen" ELSE "sv_insert"]
  /\ UNCHANGED <<timerVars, bridgeVars, monGlobals, capObj, dbVars, monLocals, stopLocals, envVars, obs>>

\* lines 425-432: is_opened = cap.isOpened(), taken as True when the call fails
StopIsOpened(t) ==
  /\ pc[t] = "st_isopen"
  /\ LET is_opened == IF cap = None THEN TRUE ELSE IsOpened(cap)
     IN pc' = [pc EXCEPT ![t] = IF is_opened THEN "st_release" ELSE "st_clear"]
  /\ UNCHANGED <<timerVars, bridgeVars, monGlobals, capObj, dbVars, monLocals, stopLocals, envVars, obs>>

\* line 434: cap.release(); an AttributeError is caught at 439
StopRelease(t) ==
  /\ Goto(t, "st_release", "st_clear")
  /\ IF cap = None
       THEN UNCHANGED <<capObj, obs>>
       ELSE /\ capObj' = Released(capObj, cap)
            /\ obs' = [obs EXCEPT !.did[t] = @ \cup {"release"}]
  /\ UNCHANGED <<timerVars, bridgeVars, monGlobals, dbVars, monLocals, stopLocals, envVars>>

\* line 445: cap = None, whatever happened
StopClear(t) ==
  /\ Goto(t, "st_clear", "sv_insert")
  /\ cap' = None
  /\ UNCHANGED <<timerVars, bridgeVars, running, session_active, emotion_counts, emotion_window,
                 phone_visible_start, capObj, dbVars, monLocals, stopLocals, envVars, obs>>

\* =========================================================================
\* EmotionDetection.py: save_session_to_db; each SQL statement is one step
\* =========================================================================

\* lines 85-96: INSERT; the id is the AUTOINCREMENT sequence's next value
Inserted(rows, id, counts) == Append(rows, [id |-> id, counts |-> counts])

SaveInsert(t) ==
  /\ Goto(t, "sv_insert", "sv_count")
  /\ sqlite_seq' = sqlite_seq + 1
  /\ sessions' = Inserted(sessions, sqlite_seq + 1, emotion_counts)
  /\ obs' = [obs EXCEPT !.did[t] = @ \cup {"save"},
                        !.log = Append(@, sessions'[Len(sessions')])]
  /\ UNCHANGED <<timerVars, bridgeVars, monGlobals, capObj, monLocals, stopLocals, envVars>>

\* lines 99-100: SELECT COUNT(*)
SaveCount(t) ==
  /\ Goto(t, "sv_count", "sv_delete")
  /\ count' = [count EXCEPT ![t] = Len(sessions)]
  /\ UNCHANGED <<timerVars, bridgeVars, monGlobals, capObj, dbVars, monLocals, envVars, obs>>

\* the DELETE of lines 101-107 left out
ExcessKept(n) == 0

\* lines 101-106: how many of the oldest rows to delete
Excess(n) == IF n > KeepLast THEN n - KeepLast ELSE 0

\* how many rows have an id below (above) the id x
Below(rows, x) == Cardinality({q \in 1..Len(rows) : rows[q].id < x})
Above(rows, x) == Cardinality({q \in 1..Len(rows) : rows[q].id > x})

\* ORDER BY id DESC written for ORDER BY id ASC: the newest rows are deleted
DeleteNewest(rows, k) == SelectSeq(rows, LAMBDA r : Above(rows, r.id) >= k)

\* lines 102-106: DELETE ... WHERE id IN (SELECT id ... ORDER BY id ASC LIMIT k),
\* the k rows with the smallest ids
DeleteOldest(rows, k) == SelectSeq(rows, LAMBDA r : Below(rows, r.id) >= k)

\* a stop that leaves the consumer attached
DetachedNever(ws) == ws

\* lines 469-472: if video_websocket is not None: video_websocket = None
Detached(ws) == IF ws # None THEN None ELSE ws

\* lines 101-123 and 469-474: delete the excess; stop clears video_websocket
\* and returns
SaveDelete(t) ==
  /\ pc[t] = "sv_delete"
  /\ pc' = [pc EXCEPT ![t] = AfterStop(t)]
  /\ sessions' = DeleteOldest(sessions, Excess(count[t]))
  /\ count' = [count EXCEPT ![t] = 0]
  /\ video_websocket' = Detached(video_websocket)
  /\ bobs' = [bobs EXCEPT
               !.expect = IF video_websocket' = None THEN None ELSE @,
               !.replacedAt = [v \in Consumers |->
                                IF v = video_websocket /\ v # video_websocket'
                                  THEN bobs.serial ELSE @[v]]]
  /\ obs' = [obs EXCEPT !.returned = @ \/ t \notin Mons]
  /\ UNCHANGED <<timerVars, monGlobals, capObj, sqlite_seq, monLocals, envVars,
                 main_event_loop, pending, conn>>

\* =========================================================================
\* frontend main.py: GET /api/sessions
\* =========================================================================

\* lines 251-256: SELECT ... FROM sessions ORDER BY id DESC, all rows
OrderByIdDesc(rows) ==
  [i \in 1..Len(rows) |->
     rows[CHOOSE r \in 1..Len(rows) : Above(rows, rows[r].id) = i - 1]]

\* lines 231-276; the request may arrive at any moment, also between the
\* statements of a save in progress (listedQuiet: none was in progress)
get_sessions ==
  /\ obs' = [obs EXCEPT !.listed = OrderByIdDesc(sessions),
                        !.listedQuiet = \A t \in Threads : pc[t] = "idle",
                        !.listedLog = Len(obs.log)]
  /\ obs'.listed # obs.listed \/ obs'.listedQuiet # obs.listedQuiet
  /\ UNCHANGED <<timerVars, bridgeVars, monGlobals, capObj, dbVars, pc, monLocals, stopLocals, envVars>>

StopStep(t) ==
  \/ StopTest(t) \/ Stop0Cap(t) \/ Stop0IsOpened(t) \/ Stop0Release(t) \/ Stop0Clear(t)
  \/ StopActive(t) \/ StopRunning(t) \/ StopCap(t) \/ StopIsOpened(t)
  \/ StopRelease(t) \/ StopClear(t)
  \/ SaveInsert(t) \/ SaveCount(t) \/ SaveDelete(t)

\* the monitor thread's own steps, given what the classifiers and the clock may do
MonStep(m, raws, jumps, track) ==
  \/ MonReset(m) \/ MonCapNone(m) \/ MonOpen(m) \/ MonCheck(m) \/ MonProps(m)
  \/ MonSetRunning(m) \/ MonSetActive(m) \/ MonLoopTest(m) \/ MonCapChk(m) \/ MonRead(m) \/ MonReadReturns(m, BOOLEAN)
  \/ MonEmotion(m, raws) \/ MonDistraction(m, jumps, track) \/ MonPublish(m)
  \/ MonRaises(m)
  \/ FinCap(m) \/ FinIsOpened(m) \/ FinRelease(m) \/ FinClear(m) \/ FinActive(m)
  \/ FinTemp(m) \/ FinCallStop(m) \/ FinRestore(m)
  \/ StopStep(m)

\* =========================================================================
\* The video bridge: set_video_websocket, _send_video_frame (EmotionDetection.py)
\* and the /ws/video endpoint (frontend main.py); all of it runs on the event loop
\* =========================================================================

\* a consumer, once attached, is not replaced by a later one
SetKeepsFirst(old, new) == IF old # None /\ new # None THEN old ELSE new

\* line 380: video_websocket = websocket
SetVideoWebsocket(old, new) == new

\* connection w stops being the consumer when another value is assigned
Replaced(o, old, new) ==
  [o EXCEPT !.replacedAt = [v \in Consumers |->
                              IF v = old /\ v # new THEN o.serial ELSE @[v]]]

\* frontend main.py lines 385-386: accept(), set_video_websocket(websocket)
websocket_video(w) ==
  /\ conn[w] = "new"
  /\ \A v \in Consumers : v < w => conn[v] # "new"
  /\ conn' = [conn EXCEPT ![w] = "open"]
  /\ video_websocket' = SetVideoWebsocket(video_websocket, w)
  /\ bobs' = [Replaced(bobs, video_websocket, w) EXCEPT !.expect = w]
  /\ UNCHANGED <<timerVars, monGlobals, capObj, dbVars, pc, monLocals, stopLocals, envVars,
                 obs, main_event_loop, pending>>

\* the peer of connection w closes it; the endpoint's receive_text has not
\* raised yet
PeerCloses(w) ==
  /\ conn[w] = "open"
  /\ conn' = [conn EXCEPT ![w] = "closed"]
  /\ bobs' = [bobs EXCEPT !.expect = IF @ = w THEN None ELSE @]
  /\ UNCHANGED <<timerVars, monGlobals, capObj, dbVars, pc, monLocals, stopLocals, envVars,
                 obs, video_websocket, main_event_loop, pending>>

\* frontend main.py lines 411-412: WebSocketDisconnect in the endpoint of
\* connection w: set_video_websocket(None), whichever connection is attached
WebSocketDisconnect(w) ==
  /\ conn[w] = "closed"
  /\ conn' = [conn EXCEPT ![w] = "gone"]
  /\ video_websocket' = SetVideoWebsocket(video_websocket, None)
  /\ bobs' = [Replaced(bobs, video_websocket, None) EXCEPT
               !.nullDetach = IF video_websocket # None THEN @
                              ELSE IF video_websocket' = None THEN "same" ELSE "changed"]
  /\ UNCHANGED <<timerVars, monGlobals, capObj, dbVars, pc, monLocals, stopLocals, envVars,
                 obs, main_event_loop, pending>>

\* websocket.send_text on connection w succeeds while the peer has it open
SendSucceeds(w) == w # None /\ conn[w] = "open"

\* lines 370-375: the event loop runs the oldest scheduled _send_video_frame;
\* whatever send_text raises (None has no send_text, a closed connection) is
\* caught at line 374 and printed
send_video_frame ==
  /\ pending # <<>>
  /\ LET h == Head(pending)
     IN bobs' = IF SendSucceeds(h.ws)
                  THEN [bobs EXCEPT !.delivered[h.ws] = Append(@, h.id)]
                  ELSE [bobs EXCEPT !.failed = IF h.ws = None THEN @ ELSE @ \cup {h.ws}]
  /\ pending' = Tail(pending)
  /\ UNCHANGED <<timerVars, monGlobals, capObj, dbVars, pc, monLocals, stopLocals, envVars,
                 obs, video_websocket, main_event_loop, conn>>

\* =========================================================================
\* FocusRestReminders.py: _run_timer, run by the scheduler thread r
\* =========================================================================
notTimerVars == <<monGlobals, capObj, dbVars, pc, monLocals, stopLocals, envVars, obs,
                  bridgeVars>>

\* thread r moves from location a to location b
RunGoto(r, a, b) == run[r].pc = a /\ run' = [run EXCEPT ![r].pc = b]

\* send_notification(..., tag=tag) by thread r: handed over, never waited for
Sent(o, r, tag) == [o EXCEPT !.sent[r] = Append(@, tag), !.phase[r] = Append(@, tag)]

\* thread r begins a focus chunk (line 141) or a rest phase (line 187)
Began(o, r) == [o EXCEPT !.phase[r] = <<>>]

\* thread r has made a one-second tick
Ticked(o, r) == IF o.signalled = r THEN [o EXCEPT !.after = @ + 1] ELSE o

\* thread r has finished a chunk
Chunk(o, r, kind, len) == [o EXCEPT !.chunks[r] = Append(@, <<kind, len>>)]

\* only the focus time is looked at
FocusUnset(focus, rest, repeat) == focus = 0

\* line 115 (and frontend main.py, line 180): one of the three times is not set
TimesUnset(focus, rest, repeat) == focus = 0 \/ rest = 0 \/ repeat = 0

\* lines 115-117: all three times must be set
RunValidate(r) ==
  /\ run[r].pc = "t_validate"
  /\ run' = [run EXCEPT ![r].pc =
               IF TimesUnset(FocusTime, RestTime, RepeatTime)
                 THEN "done" ELSE "t_reset"]
  /\ UNCHANGED <<notTimerVars, timerGlobals, starter, tobs>>
  /\ UNCHANGED notify

\* line 120: reset_timer_state()
RunReset(r) ==
  /\ RunGoto(r, "t_reset", "t_init")
  /\ timer_state' = FreshTimerState
  /\ UNCHANGED <<notTimerVars, FocusTime, RestTime, RepeatTime, timer_thread,
                 timer_stop_event, starter, tobs>>
  /\ UNCHANGED notify

\* lines 121-123
RunInit(r) ==
  /\ RunGoto(r, "t_init", "t_started")
  /\ timer_state' = [timer_state EXCEPT !.is_running = TRUE,
                                        !.start_time = now,
                                        !.focus_time_remaining = FocusTime]
  /\ UNCHANGED <<notTimerVars, FocusTime, RestTime, RepeatTime, timer_thread,
                 timer_stop_event, starter, tobs>>
  /\ UNCHANGED notify

\* lines 126-132: the "timer started" notification
RunStarted(r) ==
  /\ RunGoto(r, "t_started", "t_outer")
  /\ IF ~timer_state.notifications_sent.timer_started
       THEN /\ timer_state' = [timer_state EXCEPT !.notifications_sent.timer_started = TRUE]
            /\ tobs' = Sent(tobs, r, "timer-started")
       ELSE UNCHANGED <<timer_state, tobs>>
  /\ UNCHANGED <<notTimerVars, FocusTime, RestTime, RepeatTime, timer_thread,
                 timer_stop_event, starter>>
  /\ notify' = IF tobs'.sent = tobs.sent THEN notify
                ELSE send_notification(notify, "NotificationSender")

\* line 135: while focus_time_remaining > 0 and not _timer_stop_event.is_set()
RunOuterTest(r) ==
  /\ run[r].pc = "t_outer"
  /\ run' = [run EXCEPT ![r].pc =
               IF timer_state.focus_time_remaining > 0 /\ ~timer_stop_event
                 THEN "t_focus_begin" ELSE "t_end"]
  /\ UNCHANGED <<notTimerVars, timerGlobals, starter, tobs>>
  /\ UNCHANGED notify

\* the min of line 138 left out: every chunk is a whole check interval
FocusChunkWhole(repeat, remaining) == repeat

\* line 138: focus_duration = min(RepeatTime, focus_time_remaining)
FocusChunk(repeat, remaining) == Min(repeat, remaining)

\* lines 138-148: the focus phase begins
RunFocusBegin(r) ==
  /\ run[r].pc = "t_focus_begin"
  /\ LET focus_duration == FocusChunk(RepeatTime, timer_state.focus_time_remaining)
     IN /\ run' = [run EXCEPT ![r].pc = "t_focus_test",
                              ![r].focus_duration = focus_duration,
                              ![r].focus_elapsed = 0]
        /\ timer_state' = [timer_state EXCEPT
                             !.phase = "focus",
                             !.phase_start_time = now,
                             !.phase_duration = focus_duration,
                             !.time_remaining = focus_duration,
                             !.notifications_sent.break_starting_10s = FALSE]
        /\ tobs' = Began(tobs, r)
  /\ UNCHANGED <<notTimerVars, FocusTime, RestTime, RepeatTime, timer_thread,
                 timer_stop_event, starter>>
  /\ UNCHANGED notify

\* line 149: while focus_elapsed < focus_duration and not _timer_stop_event.is_set()
RunFocusTest(r) ==
  /\ run[r].pc = "t_focus_test"
  /\ IF run[r].focus_elapsed < run[r].focus_duration /\ ~timer_stop_event
       THEN /\ run' = [run EXCEPT ![r].pc = "t_focus_sleep"]
            /\ tobs' = tobs
       ELSE /\ run' = [run EXCEPT ![r].pc = "t_after_focus"]
            /\ tobs' = Chunk(tobs, r, "focus", run[r].focus_elapsed)
  /\ UNCHANGED <<notTimerVars, timerGlobals, starter>>
  /\ UNCHANGED notify

\* lines 160-162: the "break in 10 seconds" notification is due
BreakSoon(flags, focus_elapsed, focus_duration, remaining) ==
  /\ ~flags.break_starting_10s
  /\ focus_elapsed = focus_duration - 10
  /\ remaining > 10

\* lines 150-168: time.sleep(1) returns and the second is accounted for
RunFocusTick(r) ==
  /\ run[r].pc = "t_focus_sleep"
  /\ LET focus_elapsed == run[r].focus_elapsed + 1
         remaining == timer_state.focus_time_remaining - 1
         soon == BreakSoon(timer_state.notifications_sent, focus_elapsed,
                           run[r].focus_duration, remaining)
     IN /\ run' = [run EXCEPT ![r].pc = "t_focus_test",
                              ![r].focus_elapsed = focus_elapsed]
        /\ timer_state' = [timer_state EXCEPT
                             !.focus_time_remaining = remaining,
                             !.time_remaining = run[r].focus_duration - focus_elapsed,
                             !.elapsed_time = focus_elapsed,
                             !.notifications_sent.break_starting_10s = @ \/ soon]
        /\ tobs' = Ticked(IF soon THEN Sent(tobs, r, "break-starting-10s") ELSE tobs, r)
  /\ UNCHANGED <<notTimerVars, FocusTime, RestTime, RepeatTime, timer_thread,
                 timer_stop_event, starter>>
  /\ notify' = IF tobs'.sent = tobs.sent THEN notify
                ELSE send_notification(notify, "NotificationSender")

\* lines 170-183: stopped, or the focus budget is used up, or a rest follows
RunAfterFocus(r) ==
  /\ run[r].pc = "t_after_focus"
  /\ IF timer_stop_event
       THEN /\ run' = [run EXCEPT ![r].pc = "t_end"]
            /\ UNCHANGED <<timer_state, tobs>>
       ELSE IF timer_state.focus_time_remaining <= 0
         THEN /\ run' = [run EXCEPT ![r].pc = "t_end"]
              /\ IF ~timer_state.notifications_sent.timer_complete
                   THEN /\ timer_state' = [timer_state EXCEPT
                                             !.notifications_sent.timer_complete = TRUE]
                        /\ tobs' = Chunk(Sent(tobs, r, "timer-complete"), r, "complete", 0)
                   ELSE UNCHANGED <<timer_state, tobs>>
         ELSE /\ run' = [run EXCEPT ![r].pc = "t_rest_begin"]
              /\ UNCHANGED <<timer_state, tobs>>
  /\ UNCHANGED <<notTimerVars, FocusTime, RestTime, RepeatTime, timer_thread,
                 timer_stop_event, starter>>
  /\ notify' = IF tobs'.sent = tobs.sent THEN notify
                ELSE send_notification(notify, "NotificationSender")

\* lines 186-202: the rest phase begins, if focus time remains
RunRestBegin(r) ==
  /\ run[r].pc = "t_rest_begin"
  /\ IF timer_state.focus_time_remaining > 0
       THEN /\ run' = [run EXCEPT ![r].pc = "t_rest_test", ![r].rest_elapsed = 0]
            /\ timer_state' = [timer_state EXCEPT
                                 !.phase = "rest",
                                 !.phase_start_time = now,
                                 !.phase_duration = RestTime,
                                 !.time_remaining = RestTime,
                                 !.notifications_sent.break_started = TRUE,
                                 !.notifications_sent.break_ending_5s = FALSE,
                                 !.notifications_sent.break_ended = FALSE]
            /\ tobs' = Sent(Began(tobs, r), r, "break-started")
       ELSE /\ run' = [run EXCEPT ![r].pc = "t_outer"]
            /\ UNCHANGED <<timer_state, tobs>>
  /\ UNCHANGED <<notTimerVars, FocusTime, RestTime, RepeatTime, timer_thread,
                 timer_stop_event, starter>>
  /\ notify' = IF tobs'.sent = tobs.sent THEN notify
                ELSE send_notification(notify, "NotificationSender")

\* line 206: while rest_elapsed < RestTime and not _timer_stop_event.is_set()
RunRestTest(r) ==
  /\ run[r].pc = "t_rest_test"
  /\ IF run[r].rest_elapsed < RestTime /\ ~timer_stop_event
       THEN /\ run' = [run EXCEPT ![r].pc = "t_rest_sleep"]
            /\ tobs' = tobs
       ELSE /\ run' = [run EXCEPT ![r].pc = "t_after_rest"]
            /\ tobs' = Chunk(tobs, r, "rest", run[r].rest_elapsed)
  /\ UNCHANGED <<notTimerVars, timerGlobals, starter>>
  /\ UNCHANGED notify

\* lines 207-220: time.sleep(1) returns and the second is accounted for
RunRestTick(r) ==
  /\ run[r].pc = "t_rest_sleep"
  /\ LET rest_elapsed == run[r].rest_elapsed + 1
         soon == /\ ~timer_state.notifications_sent.break_ending_5s
                 /\ rest_elapsed >= RestTime - 5
     IN /\ run' = [run EXCEPT ![r].pc = "t_rest_test", ![r].rest_elapsed = rest_elapsed]
        /\ timer_state' = [timer_state EXCEPT
                             !.time_remaining = RestTime - rest_elapsed,
                             !.elapsed_time = rest_elapsed,
                             !.notifications_sent.break_ending_5s = @ \/ soon]
        /\ tobs' = Ticked(IF soon THEN Sent(tobs, r, "break-ending-5s") ELSE tobs, r)
  /\ UNCHANGED <<notTimerVars, FocusTime, RestTime, RepeatTime, timer_thread,
                 timer_stop_event, starter>>
  /\ notify' = IF tobs'.sent = tobs.sent THEN notify
                ELSE send_notification(notify, "NotificationSender")

\* lines 222-235: stopped, or the break is over and the next cycle begins
RunAfterRest(r) ==
  /\ run[r].pc = "t_after_rest"
  /\ IF timer_stop_event
       THEN /\ run' = [run EXCEPT ![r].pc = "t_end"]
            /\ UNCHANGED <<timer_state, tobs>>
       ELSE /\ run' = [run EXCEPT ![r].pc = "t_outer"]
            /\ timer_state' = [timer_state EXCEPT
                                 !.notifications_sent.break_ended = TRUE,
                                 !.notifications_sent.break_starting_10s = FALSE]
            /\ tobs' = IF ~timer_state.notifications_sent.break_ended
                         THEN Sent(tobs, r, "break-ended") ELSE tobs
  /\ UNCHANGED <<notTimerVars, FocusTime, RestTime, RepeatTime, timer_thread,
                 timer_stop_event, starter>>
  /\ notify' = IF tobs'.sent = tobs.sent THEN notify
                ELSE send_notification(notify, "NotificationSender")

\* lines 238-240: the run ends and clears the stop event
RunEnd(r) ==
  /\ run[r].pc = "t_end"
  /\ run' = [run EXCEPT ![r] = [Unborn EXCEPT !.pc = "done"]]
  /\ timer_state' = [timer_state EXCEPT !.is_running = FALSE, !.phase = NoPhase]
  /\ timer_stop_event' = FALSE
  /\ UNCHANGED <<notTimerVars, FocusTime, RestTime, RepeatTime, timer_thread,
                 starter, tobs>>
  /\ UNCHANGED notify

RunStep(r) ==
  \/ RunValidate(r) \/ RunReset(r) \/ RunInit(r) \/ RunStarted(r) \/ RunOuterTest(r)
  \/ RunFocusBegin(r) \/ RunFocusTest(r) \/ RunFocusTick(r) \/ RunAfterFocus(r)
  \/ RunRestBegin(r) \/ RunRestTest(r) \/ RunRestTick(r) \/ RunAfterRest(r)
  \/ RunEnd(r)

\* =========================================================================
\* FocusRestReminders.py: startFocusRestTimer, run by a thread of its own
\* (frontend main.py, lines 190-197)
\* =========================================================================

\* thread r is inside a one-second sleep of its focus or rest loop
Ticking(r) == run[r].pc \in {"t_focus_sleep", "t_rest_sleep"}

\* Thread.is_alive()
IsAlive(r) == run[r].pc \notin {"unborn", "done"}

\* POST /api/timer/start: a thread is started on startFocusRestTimer
StartTimerCall ==
  /\ starter = "idle"
  /\ \E r \in Runs : run[r].pc = "unborn"
  /\ starter' = "s_check"
  /\ tobs' = [tobs EXCEPT !.asleep = FALSE]
  /\ UNCHANGED <<notTimerVars, timerGlobals, run>>
  /\ UNCHANGED notify

\* line 251: if _timer_thread is not None and _timer_thread.is_alive()
StartCheck ==
  /\ starter = "s_check"
  /\ starter' = IF timer_thread # None /\ IsAlive(timer_thread) THEN "s_set" ELSE "s_clear"
  /\ UNCHANGED <<notTimerVars, timerGlobals, run, tobs>>
  /\ UNCHANGED notify

\* line 252: _timer_stop_event.set()
StartSet ==
  /\ starter = "s_set"
  /\ starter' = "s_join"
  /\ timer_stop_event' = TRUE
  /\ tobs' = [tobs EXCEPT !.asleep = Ticking(timer_thread),
                          !.signalled = timer_thread, !.after = 0]
  /\ UNCHANGED <<notTimerVars, FocusTime, RestTime, RepeatTime, timer_state,
                 timer_thread, run>>
  /\ UNCHANGED notify

\* line 253: _timer_thread.join(timeout=1) returns: the thread has ended, or the
\* second is over and it has not
StartJoin ==
  /\ starter = "s_join"
  /\ starter' = "s_clear"
  /\ tobs' = [tobs EXCEPT !.asleep = @ /\ Ticking(timer_thread)]
  /\ UNCHANGED <<notTimerVars, timerGlobals, run>>
  /\ UNCHANGED notify

\* line 256: _timer_stop_event.clear()
StartClear ==
  /\ starter = "s_clear"
  /\ starter' = "s_spawn"
  /\ timer_stop_event' = FALSE
  /\ UNCHANGED <<notTimerVars, FocusTime, RestTime, RepeatTime, timer_state,
                 timer_thread, run, tobs>>
  /\ UNCHANGED notify

\* lines 259-260: a new thread on _run_timer
StartSpawn ==
  /\ starter = "s_spawn"
  /\ starter' = "idle"
  /\ LET r == CHOOSE q \in Runs : run[q].pc = "unborn" /\ \A p \in 1..(q - 1) : run[p].pc # "unborn"
     IN /\ timer_thread' = r
        /\ run' = [run EXCEPT ![r].pc = "t_validate"]
  /\ UNCHANGED <<notTimerVars, FocusTime, RestTime, RepeatTime, timer_state,
                 timer_stop_event, tobs>>
  /\ UNCHANGED notify

StarterStep ==
  \/ StartCheck \/ StartSet \/ StartJoin \/ StartClear \/ StartSpawn

\* =========================================================================
\* frontend main.py: POST /api/timer/start
\* =========================================================================

\* lines 175-213: with a time unset, HTTPException(400) is raised inside the try,
\* caught by "except Exception" at 212 and raised again as 500: nothing is started.
\* Otherwise a thread on startFocusRestTimer and a thread on
\* start_emotion_detection are started, whatever is running already.
start_timer(limit) ==
  /\ UNCHANGED notify
  /\ IF TimesUnset(FocusTime, RestTime, RepeatTime)
    THEN /\ tobs' = [tobs EXCEPT !.http = 500]
         /\ UNCHANGED <<notTimerVars, timerGlobals, run, starter>>
    ELSE /\ starter = "idle"
         /\ \E r \in Runs : run[r].pc = "unborn"
         /\ starts < limit
         /\ \E m \in Mons :
              /\ pc[m] = "idle"
              /\ pc' = [pc EXCEPT ![m] = "m_reset"]
              /\ current_emotion' = [current_emotion EXCEPT ![m] = Unbound]
         /\ starts' = starts + 1
         /\ obs' = [obs EXCEPT !.prevStop = FALSE, !.stopReq = FALSE,
                               !.second = [t \in Threads |-> FALSE], !.returned = FALSE,
                               !.raised = FALSE, !.mark = Len(obs.log), !.lost = FALSE,
                               !.probes = {}, !.got = FALSE, !.reached = FALSE]
         /\ starter' = "s_check"
         /\ tobs' = [tobs EXCEPT !.http = 200, !.launched = TRUE, !.asleep = FALSE]
         /\ UNCHANGED <<monGlobals, capObj, dbVars, frame_count, camera_index, held, temp_cap,
                        phone_detected, stopLocals, now, appends, timerGlobals, run,
                        bridgeVars>>

\* ------------------------------------------------------------------------
\* Spec: one monitor thread and one caller of stop, every interleaving
\* ------------------------------------------------------------------------
LifeRaws == {"happy"}
LifeJumps == {0}

Next ==
  \/ Start("mon", MaxStarts)
  \/ MonStep("mon", LifeRaws, LifeJumps, FALSE)
  \/ ExtCallStop
  \/ StopStep("ext")

Spec == Init /\ [][Next]_vars

\* the threads are scheduled: a thread that can take a step eventually takes one.
\* Calling start or stop is up to the environment and is not forced.
FairSpec ==
  /\ Spec
  /\ WF_vars(MonStep("mon", LifeRaws, LifeJumps, FALSE))
  /\ WF_vars(StopStep("ext"))

\* a session after a session: start_emotion_detection is called once more after
\* the monitor thread of the session before has ended, while calls of stop from
\* outside go on as before
NextAgain ==
  \/ Start("mon", MaxStarts + 1)
  \/ MonStep("mon", LifeRaws, LifeJumps, FALSE)
  \/ ExtCallStop
  \/ StopStep("ext")

SpecAgain == Init /\ [][NextAgain]_vars

\* =========================================================================
\* Claims on the monitor's life cycle (Spec, FairSpec)
\* =========================================================================

\* C1: every acquired capture device is released at most once (and so exactly once
\* when its session has ended): stop_emotion_detection() and the monitor loop's
\* finally block never both call release() on the same VideoCapture object.
C1_ReleasedOncePerAcquisition ==
  \A h \in 1..Len(capObj) : capObj[h].rel <= 1

\* the monitor loop has stopped: the thread has ended, running is false and no
\* capture device is open
MonitorStopped ==
  /\ \A m \in Mons : pc[m] = "idle"
  /\ ~running
  /\ \A h \in 1..Len(capObj) : ~capObj[h].open

\* C2: a stop request is never lost: once stop_emotion_detection() has been called
\* after start_emotion_detection() was invoked, the monitor loop eventually stops
\* (thread ended, running false, device released).
C2_StopNeverLost == obs.stopReq ~> MonitorStopped

\* C3: a call of stop_emotion_detection() that follows a stop of the session, with
\* no start in between, is a no-op: it releases no capture device and appends no
\* HistoryRecord.
C3_SecondStopNoOp ==
  \A t \in Threads : obs.second[t] => obs.did[t] = {}

\* a session ran and was stopped (device released, record appended), and a second
\* call of stop from outside has run to its return
C3_Witness ==
  /\ obs.second["ext"]
  /\ pc["ext"] = "idle"
  /\ Len(sessions) >= 1
  /\ \E h \in 1..Len(capObj) : capObj[h].rel >= 1

\* C20: when a call of stop on a running session has returned, every capture
\* device is released, the session's record is in the store, and the monitor loop
\* has no read of the device in progress (nor begins one).
C20_StopReturnsAfterCleanup ==
  obs.returned =>
    /\ \A h \in 1..Len(capObj) : ~capObj[h].open
    /\ obs.log # <<>>
    /\ \A m \in Mons : held[m] = None

\* C21: when a tick has raised an exception and the threads have ended, the
\* cleanup of an explicit stop has run: every capture device is released,
\* running and session_active are false, and the session's record is appended.
\* (SpecAgain: the exception is raised in a session started after an earlier one.)
C21_ExceptionCleansUp ==
  (obs.raised /\ \A t \in Threads : pc[t] = "idle") =>
    /\ \A h \in 1..Len(capObj) : ~capObj[h].open
    /\ ~running /\ ~session_active
    /\ Len(obs.log) > obs.mark

\* C22: failed reads are retried within a budget: the loop never goes on with
\* more than MaxReadFailures failures in a row, a read that yields a frame sets
\* the count back to zero, and when the loop has given up on the device and the
\* threads have ended, the device is released, running and session_active are
\* false and one record of the session is appended.
C22_ReadFailuresBounded ==
  /\ \A m \in Mons : pc[m] \in LoopPcs => frame_count[m] <= MaxReadFailures
  /\ \A m \in Mons : pc[m] = "m_emotion" => frame_count[m] = 0
  /\ (obs.lost /\ \A t \in Threads : pc[t] = "idle") =>
       /\ \A h \in 1..Len(capObj) : ~capObj[h].open
       /\ ~running /\ ~session_active
       /\ Len(obs.log) = obs.mark + 1

\* ------------------------------------------------------------------------
\* SpecSmooth: smooth_emotion called with every sequence of up to MaxPush
\* labels, from the empty window of line 24
\* ------------------------------------------------------------------------

\* lines 56-58: smooth_emotion(new_emotion); the caller keeps the label
\* returned in current_emotion (line 208)
smooth_emotion(new_emotion) ==
  /\ Len(obs.pushed) < MaxPush
  /\ emotion_window' = DequeAppend(emotion_window, new_emotion)
  /\ current_emotion' = [current_emotion EXCEPT !["mon"] = MostCommon(emotion_window')]
  /\ obs' = [obs EXCEPT !.pushed = Append(@, new_emotion)]
  /\ UNCHANGED <<timerVars, bridgeVars, running, session_active, cap, emotion_counts,
                 phone_visible_start, capObj, dbVars, pc, frame_count, camera_index, held,
                 temp_cap, phone_detected, stopLocals, envVars>>

SpecSmooth == Init /\ [][\E new_emotion \in Emotions : smooth_emotion(new_emotion)]_vars

\* the last k entries of a sequence, oldest first
LastPushed(w, k) == IF Len(w) <= k THEN w ELSE SubSeq(w, Len(w) - k + 1, Len(w))

\* C23: after every sequence of pushes the window holds the last WINDOW_SIZE
\* labels pushed, never more than WINDOW_SIZE of them, and the label
\* smooth_emotion returned is one of the labels in the window.
C23_SmoothedInWindow ==
  /\ Len(emotion_window) <= WINDOW_SIZE
  /\ emotion_window = LastPushed(obs.pushed, WINDOW_SIZE)
  /\ obs.pushed # <<>> =>
       \E i \in 1..Len(emotion_window) : emotion_window[i] = current_emotion["mon"]

\* more labels were pushed than the window holds, the first one has left the
\* window, and the label returned is not the one just pushed
C23_Witness ==
  /\ Len(obs.pushed) > WINDOW_SIZE
  /\ \A i \in 1..Len(emotion_window) : emotion_window[i] # obs.pushed[1]
  /\ current_emotion["mon"] # obs.pushed[Len(obs.pushed)]

\* ------------------------------------------------------------------------
\* SpecDet: the tick loop of one running session, over every pattern of
\* detections and tick times up to MaxTime
\* ------------------------------------------------------------------------
DetRaws == {}
DetJumps == 0..MaxJump

\* the state start_emotion_detection has set up when it enters the loop
InitDet ==
  /\ running = TRUE
  /\ session_active = TRUE
  /\ cap = 1
  /\ capObj = <<[open |-> TRUE, rel |-> 0]>>
  /\ emotion_counts = ZeroCounts
  /\ emotion_window = <<>>
  /\ phone_visible_start = None
  /\ pc = [t \in Threads |-> IF t = "mon" THEN "m_loop" ELSE "idle"]
  /\ frame_count = [m \in Mons |-> 0]
  /\ camera_index = [m \in Mons |-> 0]
  /\ held = [m \in Mons |-> None]
  /\ temp_cap = [m \in Mons |-> None]
  /\ current_emotion = [m \in Mons |-> Unbound]
  /\ phone_detected = [m \in Mons |-> FALSE]
  /\ count = [t \in Threads |-> 0]
  /\ now \in 0..1
  /\ starts = 1
  /\ obs = ObsInit
  /\ InitDb
  /\ InitTimerModule
  /\ InitBridge
  /\ InitNotify

NextDet ==
  \/ MonLoopTest("mon") \/ MonCapChk("mon") \/ MonRead("mon")
  \/ MonReadReturns("mon", BOOLEAN)
  \/ MonEmotion("mon", DetRaws)
  \/ MonDistraction("mon", DetJumps, TRUE)
  \/ MonPublish("mon")

SpecDet == InitDet /\ [][NextDet]_vars

\* C5: with the phone detected on every tick from a first detecting tick at
\* holdStart, no event is counted before holdStart + DISTRACTION_THRESHOLD, the
\* first event is counted at the first tick at or after it, and at that tick the
\* hold has produced exactly one event.
C5_FiresAtThreshold ==
  obs.holdStart # None =>
    /\ obs.due = None => obs.events = <<>>
    /\ obs.due # None => Len(obs.events) >= 1 /\ obs.events[1] = obs.due
    /\ obs.atDue => Len(obs.events) = 1

\* a hold has reached the threshold, some seconds after it became due
C5_Witness ==
  /\ obs.atDue
  /\ obs.events = <<obs.due>>
  /\ obs.due > obs.holdStart + DISTRACTION_THRESHOLD

\* C6: a tick without the phone leaves phone_visible_start None, and an event is
\* counted only DISTRACTION_THRESHOLD or more after the latest such tick: a
\* flickering condition accumulates nothing.
C6_FalseTickResets ==
  /\ obs.tick # None /\ ~obs.detected => phone_visible_start = None
  /\ obs.fired /\ obs.lastFalse # None =>
       obs.tick - obs.lastFalse >= DISTRACTION_THRESHOLD

\* an event is counted in a hold that began after a tick without the phone
C6_Witness ==
  /\ obs.fired
  /\ obs.lastFalse # None
  /\ obs.holdStart # None /\ obs.holdStart >= obs.lastFalse

\* C7 as claimed: within one unbroken hold at most one distraction event is counted.
C7_AtMostOneEventPerHold == Len(obs.events) <= 1

\* C7 as amended: the event resets phone_visible_start to None, and the next
\* detecting tick arms the detector again without the phone having to go away:
\* events within one hold are DISTRACTION_THRESHOLD or more apart.
C7_RearmsAfterEvent ==
  /\ obs.fired => phone_visible_start = None
  /\ \A i \in 1..(Len(obs.events) - 1) :
       obs.events[i + 1] - obs.events[i] >= DISTRACTION_THRESHOLD

\* one unbroken hold has produced a second event
C7_Witness == Len(obs.events) = 2 /\ obs.fired

\* ------------------------------------------------------------------------
\* SpecDB: the history store under a sequence of appends, one call of
\* save_session_to_db after the other, and a reader at any moment
\* ------------------------------------------------------------------------

\* line 463: a session has ended with these counters and save_session_to_db()
\* is called
CallSave ==
  /\ appends < MaxAppends
  /\ Goto("ext", "idle", "sv_insert")
  /\ appends' = appends + 1
  /\ emotion_counts' \in {ZeroCounts, Bump(ZeroCounts, "happy")}
  /\ UNCHANGED <<timerVars, bridgeVars, running, session_active, cap, emotion_window, phone_visible_start,
                 capObj, dbVars, monLocals, stopLocals, now, starts, obs>>

NextDB ==
  \/ CallSave
  \/ SaveInsert("ext") \/ SaveCount("ext") \/ SaveDelete("ext")
  \/ get_sessions

SpecDB == Init /\ [][NextDB]_vars

\* no save is in progress
Quiet == \A t \in Threads : pc[t] = "idle"

\* the last k entries of a sequence, newest first
NewestFirst(log, k) == [i \in 1..k |-> log[Len(log) + 1 - i]]

\* C8: whenever an append has returned, the store holds at most K = 5 records.
C8_AtMostKStored == Quiet /\ appends >= 1 => Len(sessions) <= KeepLast

\* the append that first exceeds K has returned
C8_Witness == Quiet /\ appends = KeepLast + 1 /\ Len(sessions) = KeepLast

\* C9: sequence ids strictly increase in append order; once more than K records
\* have been appended the store holds exactly K, the evicted records are those
\* with the smallest ids, and a reading returns the K most recently appended
\* records, newest first.
C9_KeepsNewestK ==
  /\ \A i, j \in 1..Len(obs.log) : i < j => obs.log[i].id < obs.log[j].id
  /\ Quiet /\ appends > KeepLast =>
       /\ Len(sessions) = KeepLast
       /\ OrderByIdDesc(sessions) = NewestFirst(obs.log, KeepLast)
       /\ \A i \in 1..Len(obs.log) :
            (\A q \in 1..Len(sessions) : sessions[q] # obs.log[i])
              => \A q \in 1..Len(sessions) : obs.log[i].id < sessions[q].id
  /\ obs.listedQuiet /\ obs.listedLog > KeepLast =>
       obs.listed = NewestFirst(SubSeq(obs.log, 1, obs.listedLog), KeepLast)

\* a reading taken after a third eviction
C9_Witness ==
  /\ obs.listedQuiet
  /\ obs.listedLog >= KeepLast + 3
  /\ Len(obs.listed) = KeepLast
  /\ obs.listed[1].id = obs.listedLog

\* ------------------------------------------------------------------------
\* SpecTimer: the scheduler restarted while it runs, every interleaving of
\* the starting thread with the scheduler threads
\* ------------------------------------------------------------------------

\* setFocusRestRepeatTimes has stored a configuration with a rest in it
InitTimer ==
  /\ InitMonitor /\ InitDb
  /\ RepeatTime = 1 /\ RestTime \in 1..MaxRest /\ FocusTime = RepeatTime + 1
  /\ timer_state = FreshTimerState
  /\ timer_thread = None
  /\ timer_stop_event = FALSE
  /\ run = [r \in Runs |-> Unborn]
  /\ starter = "idle"
  /\ tobs = TobsInit

NextTimer ==
  \/ StartTimerCall
  \/ StarterStep
  \/ \E r \in Runs : RunStep(r)

SpecTimer == InitTimer /\ [][NextTimer]_vars

\* C4: a restart never yields two scheduler runs ticking at the same time, in
\* particular not when the restart's signal and join fall into a one-second sleep
\* of the previous run.
C4_NeverTwoRuns == tobs.asleep => Cardinality({r \in Runs : Ticking(r)}) <= 1

\* C11: once the stop signal has been set for a run, the run makes at most one
\* more one-second tick before it ends, in particular when the signal is set
\* while the run is inside a one-second sleep.
C11_AtMostOneMoreTick == tobs.asleep => tobs.after <= 1

\* ------------------------------------------------------------------------
\* SpecDouble: POST /api/timer/start again while a session is running
\* ------------------------------------------------------------------------

\* a second thread is started on start_emotion_detection during a session
StartDuringSession ==
  /\ running /\ session_active
  /\ pc["mon"] # "idle"
  /\ Start("mon2", MaxStarts + 1)

NextDouble ==
  \/ Start("mon", MaxStarts)
  \/ StartDuringSession
  \/ \E m \in Mons : MonStep(m, LifeRaws, LifeJumps, FALSE)

SpecDouble == Init /\ [][NextDouble]_vars

\* C14: a start during a running session changes nothing: the capture device in
\* use stays the module's cap (no second device is opened, the reference is not
\* dropped) and no second thread enters the tick loop.
C14_StartWhileRunningNoOp ==
  /\ \A i \in 1..Len(capObj) : capObj[i].open => cap = i
  /\ Cardinality({m \in Mons : pc[m] \in LoopPcs}) <= 1

\* ------------------------------------------------------------------------
\* SpecBridge: a session in its tick loop, and /ws/video connections coming
\* and going
\* ------------------------------------------------------------------------

\* the camera yields a frame at every read; the loop has been entered; startup_event (frontend main.py lines 38-54) has
\* set the event loop, or has failed to
InitBridgeRun ==
  /\ running = TRUE
  /\ session_active = TRUE
  /\ cap = 1
  /\ capObj = <<[open |-> TRUE, rel |-> 0]>>
  /\ emotion_counts = ZeroCounts
  /\ emotion_window = <<>>
  /\ phone_visible_start = None
  /\ pc = [t \in Threads |-> IF t = "mon" THEN "m_loop" ELSE "idle"]
  /\ frame_count = [m \in Mons |-> 0]
  /\ camera_index = [m \in Mons |-> 0]
  /\ held = [m \in Mons |-> None]
  /\ temp_cap = [m \in Mons |-> None]
  /\ current_emotion = [m \in Mons |-> Unbound]
  /\ phone_detected = [m \in Mons |-> FALSE]
  /\ count = [t \in Threads |-> 0]
  /\ now = 0
  /\ starts = 1
  /\ obs = ObsInit
  /\ InitDb
  /\ InitTimerModule
  /\ video_websocket = None
  /\ main_event_loop \in BOOLEAN
  /\ pending = <<>>
  /\ conn = [w \in Consumers |-> "new"]
  /\ bobs = BobsInit
  /\ InitNotify

NextBridge ==
  \/ MonLoopTest("mon") \/ MonCapChk("mon") \/ MonRead("mon")
  \/ MonReadReturns("mon", {TRUE})
  \/ MonEmotion("mon", DetRaws)
  \/ MonDistraction("mon", LifeJumps, FALSE)
  \/ MonPublish("mon")
  \/ \E w \in Consumers : websocket_video(w) \/ PeerCloses(w) \/ WebSocketDisconnect(w)
  \/ send_video_frame

SpecBridge == InitBridgeRun /\ [][NextBridge]_vars

\* C15: a publish step that finds no consumer, at its check or (detached in
\* between) at its use, neither blocks nor raises into the loop: the thread goes
\* on to the next tick, the check schedules nothing, and the send scheduled
\* for no consumer delivers nothing.
C15_NoConsumerDrops ==
  [][/\ \A m \in Mons :
         (pc[m] \in {"m_publish", "m_send"} /\ video_websocket = None /\ pc'[m] # pc[m])
           => /\ pc'[m] = "m_loop"
              /\ bobs'.delivered = bobs.delivered
              /\ pc[m] = "m_publish" => pending' = pending
     /\ (pending # <<>> /\ pending' = Tail(pending) /\ Head(pending).ws = None)
           => bobs'.delivered = bobs.delivered /\ pc' = pc]_vars

\* a tick has found no consumer at its check, another has lost it before its
\* use, and the event loop has run what was scheduled
C15_Witness ==
  /\ bobs.cases = {"check", "use"}
  /\ pending = <<>>
  /\ pc["mon"] = "m_loop"

\* no number occurs twice in a sequence
NoDuplicates(w) == \A i, j \in 1..Len(w) : w[i] = w[j] => i = j

\* C16: after a connection is attached during a running loop, the next message
\* the loop publishes reaches it, once: no tick finds the bridge without a
\* consumer while the connection attached last is open, and no message is
\* delivered twice.
C16_NextMessageObserved ==
  /\ ~bobs.skipped
  /\ \A w \in Consumers : NoDuplicates(bobs.delivered[w])

\* C17: a message is scheduled only when the event loop has taken the one
\* before: the messages scheduled and not yet transmitted never pile up.
C17_PendingBounded == Len(pending) <= 1

\* C18: after a send to a connection has raised, the connection is detached: no
\* later tick finds it attached and schedules a further send to it.
C18_FailedConsumerDetached == \A i \in 1..Len(pending) : ~pending[i].late

\* C19: one consumer at a time: a message scheduled after a connection was
\* replaced (or detached) never goes to that connection, and a detach that finds
\* nothing attached changes nothing.
C19_LaterAttachReplaces ==
  /\ video_websocket \in Consumers \cup {None}
  /\ \A w \in Consumers :
       bobs.replacedAt[w] # None =>
         /\ \A i \in 1..Len(pending) : pending[i].ws = w => pending[i].id <= bobs.replacedAt[w]
         /\ \A i \in 1..Len(bobs.delivered[w]) : bobs.delivered[w][i] <= bobs.replacedAt[w]
  /\ bobs.nullDetach # "changed"

\* connection 1 got a message, connection 2 replaced it and got a later one, and
\* the second of the two detaches found nothing attached
C19_Witness ==
  /\ bobs.delivered[1] # <<>>
  /\ bobs.delivered[2] # <<>>
  /\ bobs.replacedAt[1] # None
  /\ bobs.delivered[2][1] > bobs.replacedAt[1]
  /\ bobs.nullDetach = "same"

\* the notifications a thread sends once in its run, and once in a chunk or phase
OncePerRun == {"timer-started", "timer-complete"}
OncePerPhase == {"break-starting-10s", "break-started", "break-ending-5s", "break-ended"}

\* C13: a scheduler thread sends timer-started and timer-complete at most once in
\* its run, break-starting-10s at most once in a focus chunk, and break-started,
\* break-ending-5s and break-ended at most once in a rest phase.
C13_AtMostOncePerTransition ==
  tobs.asleep =>
    \A r \in Runs :
      /\ \A tag \in OncePerRun : Occurrences(tobs.sent[r], tag) <= 1
      /\ \A tag \in OncePerPhase : Occurrences(tobs.phase[r], tag) <= 1

\* ------------------------------------------------------------------------
\* SpecUnset: the timer started, through the HTTP handler or by a call of
\* startFocusRestTimer, with one of the three times unset
\* ------------------------------------------------------------------------
\* the configurations with a time of zero
SomeTimeZero == FocusTime = 0 \/ RestTime = 0 \/ RepeatTime = 0

InitUnset ==
  /\ InitMonitor /\ InitDb
  /\ FocusTime \in 0..MaxFocus /\ RepeatTime \in 0..MaxRepeat /\ RestTime \in 0..MaxRest
  /\ SomeTimeZero
  /\ timer_state = FreshTimerState
  /\ timer_thread = None
  /\ timer_stop_event = FALSE
  /\ run = [r \in Runs |-> Unborn]
  /\ starter = "idle"
  /\ tobs = TobsInit

\* with a time unset no thread on _run_timer gets beyond its validation
NextUnset ==
  \/ start_timer(MaxStarts)
  \/ StartTimerCall
  \/ StarterStep
  \/ \E r \in Runs : RunValidate(r)

SpecUnset == InitUnset /\ [][NextUnset]_vars

\* C12: with one of the three times zero the start is rejected: is_running stays
\* false, no phase is entered, no notification is sent, no scheduler thread gets
\* beyond its validation, and the HTTP handler starts no thread.
C12_UnsetIsRejected ==
  SomeTimeZero =>
    /\ ~timer_state.is_running
    /\ timer_state.phase = NoPhase
    /\ \A r \in Runs : tobs.sent[r] = <<>> /\ run[r].pc \in {"unborn", "t_validate", "done"}
    /\ ~tobs.launched
    /\ tobs.http \in {0, 500}
    /\ \A m \in Mons : pc[m] = "idle"

\* the handler has refused, and a thread started by a call of startFocusRestTimer
\* has ended at its validation
C12_Witness ==
  /\ RestTime = 0 /\ FocusTime > 0 /\ RepeatTime > 0
  /\ tobs.http = 500
  /\ \E r \in Runs : run[r].pc = "done"

\* ------------------------------------------------------------------------
\* SpecSched: one scheduler run from its first statement to its last, never
\* cancelled, for every small configuration and for (125, 60, 10)
\* ------------------------------------------------------------------------
Example == [focus |-> 125, repeat |-> 60, rest |-> 10]

Configs ==
  {[focus |-> f, repeat |-> c, rest |-> b] :
     f \in 1..MaxFocus, c \in 1..MaxRepeat, b \in 1..MaxRest} \cup {Example}

\* startFocusRestTimer has just started thread 1 on _run_timer
InitSched ==
  /\ InitMonitor /\ InitDb
  /\ \E c \in Configs : FocusTime = c.focus /\ RepeatTime = c.repeat /\ RestTime = c.rest
  /\ timer_state = FreshTimerState
  /\ timer_thread = 1
  /\ timer_stop_event = FALSE
  /\ run = [r \in Runs |-> IF r = 1 THEN [Unborn EXCEPT !.pc = "t_validate"] ELSE Unborn]
  /\ starter = "idle"
  /\ tobs = TobsInit

NextSched == RunStep(1)

SpecSched == InitSched /\ [][NextSched]_vars

\* the expected schedule: chunks of min(check_interval, focus_remaining), a
\* rest after each but the one that uses up the budget, then "complete"
RECURSIVE Schedule(_, _, _)
Schedule(focus, repeat, rest) ==
  IF focus <= repeat
    THEN << <<"focus", focus>>, <<"complete", 0>> >>
    ELSE << <<"focus", repeat>>, <<"rest", rest>> >> \o Schedule(focus - repeat, repeat, rest)

IsPrefix(a, b) == Len(a) <= Len(b) /\ a = SubSeq(b, 1, Len(a))

\* C10: an uncancelled run executes exactly the schedule: what it has executed
\* so far is a prefix of it, all of it once the run has ended, and for
\* (125, 60, 10) it is focus 60, rest 10, focus 60, rest 10, focus 5, complete.
C10_RunsTheSchedule ==
  /\ IsPrefix(tobs.chunks[1], Schedule(FocusTime, RepeatTime, RestTime))
  /\ run[1].pc = "done" => tobs.chunks[1] = Schedule(FocusTime, RepeatTime, RestTime)
  /\ run[1].pc = "done" /\ FocusTime = 125 /\ RepeatTime = 60 /\ RestTime = 10 =>
       tobs.chunks[1] = << <<"focus", 60>>, <<"rest", 10>>, <<"focus", 60>>,
                           <<"rest", 10>>, <<"focus", 5>>, <<"complete", 0>> >>

\* the run of the example has ended
C10_Witness ==
  /\ run[1].pc = "done"
  /\ FocusTime = 125 /\ RepeatTime = 60 /\ RestTime = 10
  /\ Len(tobs.chunks[1]) = 6

\* C24: in every state of the timer the elapsed time of the phase is at most
\* the phase's duration, the states right after a phase change included.
C24_ElapsedWithinPhase == timer_state.elapsed_time <= timer_state.phase_duration

\* C25: a focus chunk that a rest follows has sent break-starting-10s exactly
\* once when it ends, whatever the check interval, and the chunk that uses up
\* the focus budget has not sent it.
C25_BreakSoonOncePerChunk ==
  /\ run[1].pc = "t_rest_begin" =>
       Occurrences(tobs.phase[1], "break-starting-10s") = 1
  /\ run[1].pc = "t_end" =>
       Occurrences(tobs.phase[1], "break-starting-10s") = 0

\* the chunk a thread has finished last
LastChunk(r) == tobs.chunks[r][Len(tobs.chunks[r])]

\* C26: a rest phase that has run to its end and is followed by the next cycle
\* has sent break-started, break-ending-5s and break-ended, each once and in
\* this order; within a rest break-ending-5s is sent exactly when 5 seconds or
\* less of it remain; a rest cut short by the stop signal sends no break-ended.
C26_RestPhaseInOrder ==
  \A r \in Runs :
    /\ (run[r].pc = "t_outer" /\ tobs.chunks[r] # <<>> /\ LastChunk(r) = <<"rest", RestTime>>)
         => tobs.phase[r] = <<"break-started", "break-ending-5s", "break-ended">>
    /\ run[r].pc = "t_rest_test" =>
         (Occurrences(tobs.phase[r], "break-ending-5s") =
            IF run[r].rest_elapsed >= 1 /\ run[r].rest_elapsed >= RestTime - 5 THEN 1 ELSE 0)
    /\ (tobs.chunks[r] # <<>> /\ LastChunk(r)[1] = "rest" /\ LastChunk(r)[2] < RestTime)
         => Occurrences(tobs.phase[r], "break-ended") = 0

\* the scheduler thread is scheduled: a run that can take a step takes one
FairSched == SpecSched /\ WF_vars(NextSched)

\* the seconds of the focus chunks in a sequence of chunks, and its rests
RECURSIVE FocusSeconds(_)
FocusSeconds(chunks) ==
  IF chunks = <<>> THEN 0
  ELSE (IF Head(chunks)[1] = "focus" THEN Head(chunks)[2] ELSE 0) + FocusSeconds(Tail(chunks))

RestPhases(chunks) == Cardinality({i \in 1..Len(chunks) : chunks[i][1] = "rest"})

\* the focus seconds thread 1 has accounted for, the running chunk included
FocusSoFar ==
  FocusSeconds(tobs.chunks[1]) +
    (IF run[1].pc \in {"t_focus_test", "t_focus_sleep"} THEN run[1].focus_elapsed ELSE 0)

Ceil(a, b) == (a + b - 1) \div b

\* C27: an uncancelled run terminates, for all positive durations; when it has
\* ended it has made exactly FocusTime focus seconds and
\* ceil(FocusTime / RepeatTime) - 1 rest phases, has sent timer-complete once,
\* and is_running is false and phase None; focus_time_remaining is the budget
\* less the focus seconds made so far (one less per focus second, the same all
\* through a rest) and never below zero.
C27_RunTerminates ==
  /\ [](/\ timer_state.focus_time_remaining >= 0
        /\ run[1].pc \notin {"t_validate", "t_reset", "t_init", "done"} =>
             timer_state.focus_time_remaining = FocusTime - FocusSoFar
        /\ run[1].pc = "done" =>
             /\ FocusSeconds(tobs.chunks[1]) = FocusTime
             /\ RestPhases(tobs.chunks[1]) = Ceil(FocusTime, RepeatTime) - 1
             /\ Occurrences(tobs.sent[1], "timer-complete") = 1
             /\ ~timer_state.is_running
             /\ timer_state.phase = NoPhase
             /\ timer_state.focus_time_remaining = 0)
  /\ <>(run[1].pc = "done")

\* a run with two rests and a last chunk shorter than the check interval has ended
C27_Witness ==
  /\ run[1].pc = "done"
  /\ FocusTime = 5 /\ RepeatTime = 2
  /\ RestPhases(tobs.chunks[1]) = 2
  /\ Occurrences(tobs.sent[1], "timer-complete") = 1

\* C28: the cycle index of the timer state is 0 in the first focus chunk of a
\* run and one more in every focus chunk that follows a rest: in a focus chunk
\* it is the number of rests the run has made.
C28_CycleAdvances ==
  run[1].pc \in {"t_focus_test", "t_focus_sleep", "t_after_focus"} =>
    timer_state.cycle = RestPhases(tobs.chunks[1])

\* C29: the record appended for a session holds the session's final counters:
\* once it is appended, emotion_counts stays what the record holds (until the
\* next session begins), whichever thread called stop.
C29_RecordHoldsFinalCounters ==
  Len(obs.log) > obs.mark => emotion_counts = obs.log[obs.mark + 1].counts

\* the locations of start_emotion_detection between its reset (lines 136-138)
\* and the first test of its loop (line 177)
SessionStartPcs == {"m_capnone", "m_open", "m_check", "m_props", "m_running", "m_active"}

\* C30: at the start of a session, from the reset until the loop is entered,
\* every counter is zero, the smoothing window is empty and
\* phone_visible_start is None: nothing of an earlier session is carried over.
C30_SessionStartsClean ==
  \A m \in Mons :
    pc[m] \in SessionStartPcs =>
      /\ emotion_counts = ZeroCounts
      /\ emotion_window = <<>>
      /\ phone_visible_start = None

\* the place of the first occurrence of a label in a window
FirstSeen(w, x) == CHOOSE i \in 1..Len(w) : w[i] = x /\ \A j \in 1..(i - 1) : w[j] # x

\* C31: the window holds exactly the last WINDOW_SIZE labels pushed (the oldest
\* is evicted on overflow); the label returned has the highest count in the
\* window, and among the labels with that count it is the one whose first
\* occurrence in the window is earliest, so the output is a function of the
\* sequence pushed.
C31_MajorityEarliestOnTie ==
  obs.pushed # <<>> =>
    LET w == LastPushed(obs.pushed, WINDOW_SIZE)
        label == current_emotion["mon"]
    IN /\ emotion_window = w
       /\ \E i \in 1..Len(w) : w[i] = label
       /\ \A i \in 1..Len(w) :
            /\ Occurrences(w, w[i]) <= Occurrences(w, label)
            /\ Occurrences(w, w[i]) = Occurrences(w, label) =>
                 FirstSeen(w, label) <= FirstSeen(w, w[i])

\* the oldest label has been evicted, and two labels tie at the highest count:
\* the one returned is not the one pushed last
C31_Witness ==
  /\ Len(obs.pushed) > WINDOW_SIZE
  /\ emotion_window[1] # obs.pushed[1]
  /\ current_emotion["mon"] # emotion_window[Len(emotion_window)]
  /\ Occurrences(emotion_window, emotion_window[Len(emotion_window)]) =
       Occurrences(emotion_window, current_emotion["mon"])

\* SpecTick: the ticks of a running session whose frames all arrive, with a
\* consumer that attaches to /ws/video and stays
SpecTick ==
  InitBridgeRun /\
    [][\/ MonLoopTest("mon") \/ MonCapChk("mon") \/ MonRead("mon")
       \/ MonReadReturns("mon", {TRUE})
       \/ MonEmotion("mon", LifeRaws)
       \/ MonDistraction("mon", LifeJumps, FALSE)
       \/ MonPublish("mon")
       \/ websocket_video(1)
       \/ send_video_frame]_vars

\* C32: a tick whose classification raises (no face) is an empty observation:
\* the step changes no counter and pushes nothing into the window, the thread
\* goes on to the phone detection of the same tick and through the rest of the
\* tick, and a message scheduled in that tick carries no emotion label.
C32_NoFaceIsEmptyObservation ==
  [][/\ (pc["mon"] = "m_emotion" /\ obs'.noFace) =>
          /\ emotion_counts' = emotion_counts
          /\ emotion_window' = emotion_window
          /\ pc'["mon"] = "m_distraction"
          /\ current_emotion'["mon"] = NoLabel
     /\ (obs.noFace /\ pc'["mon"] # pc["mon"]) =>
          \/ pc["mon"] = "m_distraction" /\ pc'["mon"] = "m_publish"
          \/ pc["mon"] = "m_publish" /\ pc'["mon"] \in {"m_send", "m_loop"}
          \/ pc["mon"] = "m_send" /\ pc'["mon"] = "m_loop"
     /\ (obs.noFace /\ Len(pending') > Len(pending)) =>
          pending'[Len(pending')].emotion = NoLabel]_vars

\* a tick has counted an emotion, and a later tick that found no face has
\* scheduled its message, without a label
C32_Witness ==
  /\ emotion_counts["happy"] = 1
  /\ pending # <<>>
  /\ pending[Len(pending)].emotion = NoLabel
  /\ pc["mon"] = "m_loop"

\* ------------------------------------------------------------------------
\* FairSession: POST /api/timer/start with the times set: the scheduler and
\* the monitor are started together and every thread is scheduled; the server
\* may be shut down at any time (shutdown_event, frontend main.py lines 58-66,
\* calls stop_emotion_detection), and nothing makes it so
\* ------------------------------------------------------------------------
\* the steps of the monitor thread m with a camera that yields a frame at
\* every read until it is released
SessionMon(m) ==
  \/ MonReset(m) \/ MonCapNone(m) \/ MonOpen(m) \/ MonCheck(m) \/ MonProps(m)
  \/ MonSetRunning(m) \/ MonSetActive(m) \/ MonLoopTest(m) \/ MonCapChk(m) \/ MonRead(m)
  \/ MonReadReturns(m, {IsOpened(held[m])})
  \/ MonEmotion(m, DetRaws) \/ MonDistraction(m, LifeJumps, FALSE) \/ MonPublish(m)
  \/ MonRaises(m)
  \/ FinCap(m) \/ FinIsOpened(m) \/ FinRelease(m) \/ FinClear(m) \/ FinActive(m)
  \/ FinTemp(m) \/ FinCallStop(m) \/ FinRestore(m)
  \/ StopStep(m)

\* frontend main.py, lines 58-66: the server shuts down, once, and its handler
\* calls stop_emotion_detection()
shutdown_event ==
  /\ ~tobs.down
  /\ Goto("ext", "idle", "st_test")
  /\ obs' = [obs EXCEPT !.second["ext"] = obs.prevStop,
                        !.did["ext"] = {},
                        !.stopReq = @ \/ \E m \in Mons : pc[m] # "idle"]
  /\ tobs' = [tobs EXCEPT !.down = TRUE]
  /\ UNCHANGED <<timerGlobals, run, starter, bridgeVars, monGlobals, capObj, dbVars,
                 monLocals, stopLocals, envVars>>
  /\ UNCHANGED notify

NextSession ==
  \/ ~tobs.down /\ start_timer(MaxStarts)
  \/ StartCheck \/ StartClear \/ StartSpawn
  \/ \E r \in Runs : RunStep(r)
  \/ \E m \in Mons : SessionMon(m)
  \/ shutdown_event
  \/ StopStep("ext")

FairSession ==
  /\ InitTimer /\ [][NextSession]_vars
  /\ WF_vars(StartCheck \/ StartClear \/ StartSpawn)
  /\ WF_vars(\E r \in Runs : RunStep(r))
  /\ WF_vars(\E m \in Mons : SessionMon(m))
  /\ WF_vars(StopStep("ext"))

\* the scheduler run of the session has ended
TimerOver == \E r \in Runs : run[r].pc = "done"

\* C33: once the scheduler run has ended while the monitor's session is
\* active, the monitor loop is eventually stopped too: the thread has ended,
\* running is false, the device is released and the record is appended.
C33_MonitorStopsWithTimer ==
  (TimerOver /\ session_active) ~> (MonitorStopped /\ Len(obs.log) > obs.mark)

\* ---------------------------------------------------------------- C34
\* the locations of start_emotion_detection before the loop
AcquirePcs == {"m_reset", "m_capnone", "m_open", "m_check"}

\* C34: when none of the camera indices 0, 1, 2 has given a frame,
\* start_emotion_detection returns without raising and
\* leaves running false, session_active false, cap None, no capture object
\* open, every test capture that opened without a frame released; and no step
\* of the start up to its return appends a HistoryRecord
C34_FailedStartLeavesIdle ==
  [][/\ (pc["mon"] = "m_check" /\ ~obs.got /\ pc'["mon"] # "m_check")
        => /\ pc'["mon"] = "idle"
           /\ ~obs'.raised
           /\ ~running' /\ ~session_active'
           /\ cap' = None
           /\ \A h \in 1..Len(capObj') : ~capObj'[h].open
           /\ \A p \in obs'.probes : ~p.open /\ p.rel = 1
     /\ (pc["mon"] \in AcquirePcs /\ pc'["mon"] # pc["mon"])
        => obs'.log = obs.log]_vars

\* a start has given up after a test capture had opened without a frame
C34_Witness ==
  /\ pc["mon"] = "idle" /\ starts = 1
  /\ obs.probes # {} /\ ~obs.got
  /\ cap = None /\ ~running /\ ~session_active
  /\ Len(obs.log) = 0

\* ---------------------------------------------------------------- C35
\* C35: a session that has reached the running state (line 171) never has more
\* than one HistoryRecord appended for it, and has exactly one once the monitor
\* thread and every caller of stop have returned, whether the stop came from
\* outside, from the loop's own finally block, or from both
C35_ExactlyOneRecord ==
  obs.reached =>
    /\ Len(obs.log) <= obs.mark + 1
    /\ (\A t \in Threads : pc[t] = "idle") => Len(obs.log) = obs.mark + 1

\* ---------------------------------------------------------------- C36
\* C36: the disconnect of a connection detaches only that connection: when the
\* endpoint of connection w handles the end of w while another connection is
\* attached, that connection stays attached
C36_DisconnectDetachesOnlyItself ==
  [][\A w \in Consumers :
       (conn[w] = "closed" /\ conn'[w] = "gone" /\ video_websocket \in Consumers \ {w})
         => video_websocket' = video_websocket]_vars

\* =========================================================================
\* NotificationSender.py and the /ws/notifications endpoint of frontend main.py
\* =========================================================================

\* frontend main.py lines 122-156, the endpoint coroutine of connection c:
\* accept and register_websocket in the instance notification_sender (lines
\* 131-132); the peer closes the connection while receive_text is awaited (line
\* 139); WebSocketDisconnect is handled by unregister_websocket (lines 149-150)
websocket_notifications(c) ==
  /\ \/ /\ notify.conn[c] = "new"
        /\ \A v \in Consumers : v < c => notify.conn[v] # "new"
        /\ notify' = [notify EXCEPT !.conn[c] = "open",
                                    !.websocket_connections["notification_sender"] = @ \cup {c}]
     \/ /\ notify.conn[c] = "open"
        /\ notify' = [notify EXCEPT !.conn[c] = "closed"]
     \/ /\ notify.conn[c] = "closed"
        /\ notify' = [notify EXCEPT !.conn[c] = "gone",
                                    !.websocket_connections["notification_sender"] = @ \ {c}]
  /\ UNCHANGED <<notTimerVars, timerGlobals, run, starter, tobs>>

\* ------------------------------------------------------------------------
\* SpecNotify: one scheduler thread, and clients that connect to and
\* disconnect from /ws/notifications
\* ------------------------------------------------------------------------
SpecNotify ==
  InitSched /\ [][RunStep(1) \/ \E c \in Consumers : websocket_notifications(c)]_vars

\* C37: a notification the scheduler emits while a client is registered on the
\* notifications WebSocket is handed to the event loop for the instance of
\* NotificationSender the endpoint registers its clients in, and is not dropped
\* for want of a connection
C37_EmittedReachesRegistered ==
  [][(notify'.serial > notify.serial
      /\ notify.websocket_connections["notification_sender"] # {})
       => /\ notify'.dropped = notify.dropped
          /\ Len(notify'.task) = Len(notify.task) + 1
          /\ notify'.task[Len(notify'.task)].mod = "notification_sender"]_vars

\* NotificationSender.py lines 113-132, the coroutine of task k run by the event
\* loop up to its next await. Begun, it returns False when no connection is
\* registered (lines 114-116), else it starts to iterate over the live set
\* _websocket_connections (line 121) and sends to a first connection (line 123).
\* Resumed, the iterator raises RuntimeError when the set's size is no longer
\* the size it had when the iteration began, and the coroutine ends there;
\* otherwise it sends to a connection not yet visited, or, when none of the
\* connections that were there from the beginning is left to visit, unregisters
\* the connections whose send raised (lines 129-130) and returns. A send to a
\* connection its peer has closed raises (lines 124-126)
send_notification_async(k) ==
  /\ k \in 1..Len(notify.task)
  /\ LET t == notify.task[k]
         reg == notify.websocket_connections[t.mod]
         Send(n, c) ==
           [n EXCEPT !.received[c] = IF n.conn[c] = "open" THEN Append(@, t.id) ELSE @,
                     !.task[k].visited = @ \cup {c},
                     !.task[k].disconnected = IF n.conn[c] = "open" THEN @ ELSE @ \cup {c},
                     !.task[k].pc = "await"]
     IN \/ /\ t.pc = "scheduled" /\ reg = {}
           /\ notify' = [notify EXCEPT !.task[k].pc = "empty", !.dropped = @ \cup {t.id}]
        \/ /\ t.pc = "scheduled" /\ reg # {}
           /\ \E c \in reg : notify' = Send([notify EXCEPT !.task[k].start = reg], c)
        \/ /\ t.pc = "await" /\ Cardinality(reg) # Cardinality(t.start)
           /\ notify' = [notify EXCEPT !.task[k].pc = "raised"]
        \/ /\ t.pc = "await" /\ Cardinality(reg) = Cardinality(t.start)
           /\ \E c \in reg \ t.visited : notify' = Send(notify, c)
        \/ /\ t.pc = "await" /\ Cardinality(reg) = Cardinality(t.start)
           /\ (t.start \cap reg) \subseteq t.visited
           /\ notify' = [notify EXCEPT !.task[k].pc = "done",
                                       !.websocket_connections[t.mod] = @ \ t.disconnected]
  /\ UNCHANGED <<notTimerVars, timerGlobals, run, starter, tobs>>

\* ------------------------------------------------------------------------
\* SpecBroadcast: send_notification called on the instance that holds the
\* registered connections and the event loop, while clients connect to and
\* disconnect from /ws/notifications
\* ------------------------------------------------------------------------
SpecBroadcast ==
  Init /\ [][\/ /\ notify.serial < MaxNotify
                /\ notify' = send_notification(notify, "notification_sender")
                /\ UNCHANGED <<notTimerVars, timerGlobals, run, starter, tobs>>
             \/ \E c \in Consumers : websocket_notifications(c)
             \/ \E k \in 1..MaxNotify : send_notification_async(k)]_vars

\* C38: when a broadcast that has begun to send ends, every connection that was
\* registered when it began and still is has received the notification exactly
\* once, no connection has received it twice, and exactly the connections whose
\* send raised have been unregistered by it
C38_BroadcastReachesAll ==
  [][\A k \in 1..Len(notify.task) :
       (notify.task[k].pc = "await" /\ notify'.task[k].pc # "await")
         => LET t == notify'.task[k]
                reg == notify.websocket_connections[t.mod]
                left == notify'.websocket_connections[t.mod]
            IN /\ \A c \in t.start \cap left : Occurrences(notify'.received[c], t.id) = 1
               /\ \A c \in Consumers : Occurrences(notify'.received[c], t.id) <= 1
               /\ left = reg \ t.disconnected]_vars

\* ---------------------------------------------------------------- C39
\* run r is inside the loop of a focus chunk (lines 149-168) or of a rest phase
\* (lines 206-222)
InPhase(r) == run[r].pc \in {"t_focus_test", "t_focus_sleep", "t_rest_test", "t_rest_sleep"}

\* C39: while a run executes a phase, timer_state.is_running is true and
\* timer_state.phase is "focus" or "rest"; is_running is false with phase None
\* only when no run executes a phase, also across a restart
C39_StateMatchesRun ==
  /\ (\E r \in Runs : InPhase(r))
       => timer_state.is_running /\ timer_state.phase \in {"focus", "rest"}
  /\ (~timer_state.is_running /\ timer_state.phase = NoPhase)
       => \A r \in Runs : ~InPhase(r)

\* ------------------------------------------------------------------------
\* SpecRejoin: a running session and the sessions after it, each ended by the
\* loop's own stop or by the shutdown of the server, while a consumer connects
\* to /ws/video and the event loop transmits
\* ------------------------------------------------------------------------
SpecRejoin ==
  InitBridgeRun /\ [][\/ ~tobs.down /\ Start("mon", MaxStarts + 1)
                    \/ SessionMon("mon")
                    \/ shutdown_event
                    \/ StopStep("ext")
                    \/ websocket_video(1)
                    \/ send_video_frame]_vars

\* C40: the step that completes a stop of an active session leaves no consumer
\* attached; and a consumer that has been detached is sent nothing by any later
\* publish, in that session or a later one, although its connection is open
C40_StopDetachesConsumer ==
  [][/\ \A t \in Threads :
         (pc[t] = "sv_delete" /\ pc'[t] # "sv_delete") => video_websocket' = None
     /\ \A w \in Consumers :
         (bobs.replacedAt[w] # None /\ Len(pending') > Len(pending))
           => pending'[Len(pending')].ws # w]_vars

\* a second session has made a whole tick with no consumer attached, while the
\* connection that the stop of the first session detached after frames had been
\* transmitted to it is still open
C40_Witness ==
  /\ starts = 2 /\ pc["mon"] = "m_loop" /\ current_emotion["mon"] # Unbound
  /\ video_websocket = None
  /\ \E w \in Consumers :
       /\ conn[w] = "open"
       /\ bobs.delivered[w] # <<>>
       /\ bobs.replacedAt[w] # None

====
